---- MODULE Spec2Model ----
(***************************************************************************)
(* Evaluation orchestrator of the LLM comparison backend:                  *)
(* create_evaluation_endpoint and run_evaluation_background                 *)
(* (backend/src/api/evaluation.py), the persistence helpers they call       *)
(* (backend/src/db/queries.py), the provider factory and the judge.         *)
(* One evaluation run over one dataset is modelled; the database rows the   *)
(* run writes are the state that a status poll can observe.                 *)
(***************************************************************************)
EXTENDS Integers, Sequences, FiniteSets, TLC

\* Bounds of the model.
MaxQuestions == 2
MaxModels == 3
MaxProgressQuestions == 50

\* Width of an IEEE-754 double's significand (Python float).
MantissaBits == 53

NULL == "NULL"

VARIABLES
    dsQuestions,       \* number of TestQuestion rows of the dataset
    evaluation,        \* the Evaluation row (NoEvaluation before it is created)
    pc,                \* position of run_evaluation_background
    models_to_test,    \* request.models_to_test: the provider of each model config
    judge_provider,    \* request.judge_provider
    questions,         \* len(questions) as read by the background task
    idx,               \* loop index of the question being processed (0-based)
    mi,                \* number of model configs already handled for this question
    model_responses,   \* ids of the results appended for the current question
    model_results,     \* ModelResult rows, in insertion order (id = position)
    judge_results,     \* JudgeResult rows, in insertion order
    question_metrics,  \* number of QuestionMetrics rows
    summaries,         \* number of EvaluationSummary rows
    genErrors,         \* history: per model config, generation calls that errored
    judgeCalls,        \* history: per question, judge_pair invocations
    failCause,         \* history: which call raised the exception that failed the run
    polled,            \* last response of get_evaluation_status
    calc               \* inputs and result of the computation under check (SpecProgress, SpecRubric, ...)

vars == <<dsQuestions, evaluation, pc, models_to_test, judge_provider, questions,
          idx, mi, model_responses, model_results, judge_results, question_metrics,
          summaries, genErrors, judgeCalls, failCause, polled, calc>>

runVars == <<dsQuestions, evaluation, pc, models_to_test, judge_provider, questions,
             idx, mi, model_responses, model_results, judge_results, question_metrics,
             summaries, genErrors, judgeCalls, failCause, polled>>

-----------------------------------------------------------------------------
(* Python float arithmetic of  int((completed / len(questions)) * 100).     *)
(* A significand is a sequence of bits, least significant first; a value is *)
(* significand * 2^(-sh).                                                   *)

Reverse(s) == [i \in 1..Len(s) |-> s[Len(s) + 1 - i]]

RECURSIVE AddBits(_, _, _)
AddBits(a, b, c) ==
    IF a = <<>> /\ b = <<>>
    THEN (IF c = 1 THEN <<1>> ELSE <<>>)
    ELSE LET x == IF a = <<>> THEN 0 ELSE Head(a)
             y == IF b = <<>> THEN 0 ELSE Head(b)
             s == x + y + c
         IN <<s % 2>> \o AddBits(IF a = <<>> THEN a ELSE Tail(a),
                                 IF b = <<>> THEN b ELSE Tail(b), s \div 2)

Zeros(j) == [i \in 1..j |-> 0]

RECURSIVE BitsToInt(_)
BitsToInt(s) == IF s = <<>> THEN 0 ELSE Head(s) + 2 * BitsToInt(Tail(s))

\* Round to nearest, ties to even, keeping MantissaBits significant bits.
\* Returns the significand and the number of low bits dropped.
RoundNearestEven(bits) ==
    IF Len(bits) <= MantissaBits
    THEN [m |-> bits, dropped |-> 0]
    ELSE LET drop == Len(bits) - MantissaBits
             high == SubSeq(bits, drop + 1, Len(bits))
             guard == bits[drop]
             sticky == \E i \in 1..(drop - 1) : bits[i] = 1
             up == guard = 1 /\ (sticky \/ high[1] = 1)
         IN [m |-> IF up THEN AddBits(high, <<1>>, 0) ELSE high, dropped |-> drop]

\* r * 2^z for the least z with 2 * r * 2^z >= n (0 < r < n): the remainder at
\* which the first 1 bit of r / n is produced, and z, the zero bits before it.
RECURSIVE NormRem(_, _)
NormRem(r, n) == IF 2 * r >= n THEN r ELSE NormRem(2 * r, n)

RECURSIVE LeadZeros(_, _)
LeadZeros(r, n) == IF 2 * r >= n THEN 0 ELSE 1 + LeadZeros(2 * r, n)

\* cnt bits of r / n by long division, most significant first, followed by one
\* bit that says whether anything is left.
RECURSIVE DivBits(_, _, _)
DivBits(r, n, cnt) ==
    IF cnt = 0
    THEN <<IF r = 0 THEN 0 ELSE 1>>
    ELSE <<(2 * r) \div n>> \o DivBits((2 * r) % n, n, cnt - 1)

\* k / n as a double, 0 < k < n: [m, sh].
FloatDiv(k, n) ==
    LET z == LeadZeros(k, n)
        raw == Reverse(DivBits(NormRem(k, n), n, MantissaBits + 1))
        r == RoundNearestEven(raw)
    IN [m |-> r.m, sh |-> z + MantissaBits + 2 - r.dropped]

\* x * 100 as a double: 100 = 64 + 32 + 4.
FloatMul100(x) ==
    LET exact == AddBits(AddBits(Zeros(6) \o x.m, Zeros(5) \o x.m, 0),
                         Zeros(2) \o x.m, 0)
        r == RoundNearestEven(exact)
    IN [m |-> r.m, sh |-> x.sh - r.dropped]

\* int(x): truncation of a non-negative double.
FloatToInt(x) ==
    IF x.sh >= Len(x.m) THEN 0
    ELSE IF x.sh <= 0 THEN BitsToInt(Zeros(0 - x.sh) \o x.m)
    ELSE BitsToInt(SubSeq(x.m, x.sh + 1, Len(x.m)))

\* progress = int((completed / len(questions)) * 100), 1 <= completed <= n.
ProgressValue(completed, n) ==
    IF completed = 0 THEN 0
    ELSE IF completed = n THEN 100
    ELSE FloatToInt(FloatMul100(FloatDiv(completed, n)))

-----------------------------------------------------------------------------
(* Providers.  LLMProviderFactory._providers registers openai, anthropic    *)
(* and huggingface; mistral and together are disabled.  OpenAIProvider and  *)
(* AnthropicProvider have the same generate(), so openai stands for both.   *)

Providers == {"openai", "huggingface", "mistral"}

\* LLMProviderFactory.create: ValueError unless the provider is registered.
FactoryCreates(p) == p \in {"openai", "anthropic", "huggingface"}

\* What  await llm.generate(...)  can do for a provider the factory created.
\* OpenAI/Anthropic catch every exception and return an LLMResponse whose error
\* is set; HuggingFaceProvider.generate is a plain function that raises on an
\* HTTP error and whose LLMResponse cannot be awaited.
GenerateOutcomes(p) ==
    IF p \in {"openai", "anthropic"} THEN {"ok", "error"} ELSE {"raise"}

\* get_llm_provider followed by generate, as the model loop calls them.
GenerationCallOutcomes(p) ==
    IF FactoryCreates(p) THEN GenerateOutcomes(p) ELSE {"raise"}

\* LLMJudge.judge_pair: raises when the response carries an error or holds no
\* parseable JSON, otherwise returns a JudgeResult.
JudgePairOutcomes(p) ==
    IF "ok" \in GenerateOutcomes(p) THEN {"ok", "raise"} ELSE {"raise"}

\* str(e) of the exceptions that reach the handler of run_evaluation_background.
MsgUnsupported == "Unsupported provider"
MsgHuggingFace == "Error calling Hugging Face API"
MsgEmbedding == "OpenAI embedding error"
MsgJudge == "Error in judge evaluation"

GenerationErrorMessage(p) == IF FactoryCreates(p) THEN MsgHuggingFace ELSE MsgUnsupported

-----------------------------------------------------------------------------
(* The Evaluation row and update_evaluation_status.                         *)

\* create_evaluation with the column defaults of the Evaluation model.
NewEvaluation(total) ==
    [status |-> "pending", progress |-> 0, total_questions |-> total,
     completed_questions |-> 0, error_message |-> NULL]

\* No row yet: get_evaluation returns None.
NoEvaluation ==
    [status |-> "none", progress |-> 0, total_questions |-> 0,
     completed_questions |-> 0, error_message |-> NULL]

\* No status response returned yet.
NoPoll == [status |-> "none", progress |-> 0, completed_questions |-> 0]

\* A variant of update_evaluation_status that writes a fresh row: every column
\* that is not passed falls back to its default.
MutUpdateResetsColumns(ev, status, kwargs) ==
    [f \in DOMAIN ev |->
        IF f = "status" THEN status
        ELSE IF f \in DOMAIN kwargs THEN kwargs[f]
        ELSE IF f = "total_questions" THEN ev[f]
        ELSE NoEvaluation[f]]

\* update_evaluation_status: sets status, then setattr for every keyword.
update_evaluation_status(ev, status, kwargs) ==
    [f \in DOMAIN ev |->
        IF f = "status" THEN status
        ELSE IF f \in DOMAIN kwargs THEN kwargs[f]
        ELSE ev[f]]

NoKwargs == [x \in {} |-> 0]

\* completed = idx + 1
CompletedCount(i) == i + 1

\* The keywords of the progress update after a question.
ProgressKwargs(i, n) ==
    [completed_questions |-> CompletedCount(i),
     progress |-> ProgressValue(CompletedCount(i), n)]

\* The update that marks the run completed.
CompletedUpdate(ev) == update_evaluation_status(ev, "completed", [progress |-> 100])

\* A variant of the handler that puts the run back in the queue.
MutFailedUpdateResumes(ev, msg) ==
    update_evaluation_status(ev, "pending", [error_message |-> msg])

\* A variant of the handler that drops the message.
MutFailedUpdateNoMessage(ev, msg) == update_evaluation_status(ev, "failed", NoKwargs)

\* The update of the exception handler.
FailedUpdate(ev, msg) == update_evaluation_status(ev, "failed", [error_message |-> msg])

\* A variant of the judge condition: at least two responses.
MutJudgeConditionAtLeastTwo(responses) == Len(responses) >= 2

\* `if len(model_responses) == 2`
JudgeCondition(responses) == Len(responses) = 2

\* create_model_result as the loop calls it: error_message is not passed, so
\* the column stays NULL whatever response.error holds.
NewModelResult(q, m) == [question |-> q, model |-> m, error_message |-> NULL]

\* create_judge_result
NewJudgeResult(q, responses) ==
    [question |-> q, model_a_result |-> responses[1], model_b_result |-> responses[2]]

\* MetricsCalculator.calculate_model_metrics: error_count over the stored
\* results of one model (results.py passes result.error_message).
ResultsOf(m) == {i \in 1..Len(model_results) : model_results[i].model = m}
ErrorCount(m) == Cardinality({i \in ResultsOf(m) : model_results[i].error_message # NULL})

-----------------------------------------------------------------------------
(* Initial state: an empty dataset, no evaluation.                          *)

CalcIdle == [n |-> 0, k |-> 0, progress |-> 0]

RunInit ==
    /\ dsQuestions = 0
    /\ evaluation = NoEvaluation
    /\ pc = "none"
    /\ models_to_test = <<>>
    /\ judge_provider = NULL
    /\ questions = 0
    /\ idx = 0
    /\ mi = 0
    /\ model_responses = <<>>
    /\ model_results = <<>>
    /\ judge_results = <<>>
    /\ question_metrics = 0
    /\ summaries = 0
    /\ genErrors = <<>>
    /\ judgeCalls = <<>>
    /\ failCause = "none"
    /\ polled = NoPoll

Init == RunInit /\ calc = CalcIdle

\* The sequences of 1..MaxModels providers a request can name.
ModelConfigs == UNION {[1..k -> Providers] : k \in 1..MaxModels}

-----------------------------------------------------------------------------
(* Dataset and request handlers.                                            *)

\* add_question_to_dataset / upload: one more TestQuestion row.
AddQuestion ==
    /\ dsQuestions < MaxQuestions
    /\ dsQuestions' = dsQuestions + 1
    /\ UNCHANGED <<evaluation, pc, models_to_test, judge_provider, questions, idx, mi,
                   model_responses, model_results, judge_results, question_metrics,
                   summaries, genErrors, judgeCalls, failCause, polled, calc>>

\* create_evaluation_endpoint: 400 for a dataset without questions, otherwise
\* the row is created pending and the background task is scheduled.
CreateEvaluation ==
    /\ evaluation = NoEvaluation
    /\ dsQuestions > 0
    /\ \E ms \in ModelConfigs, jp \in Providers :
        /\ models_to_test' = ms
        /\ judge_provider' = jp
        /\ genErrors' = [i \in 1..Len(ms) |-> 0]
    /\ evaluation' = NewEvaluation(dsQuestions)
    /\ pc' = "start"
    /\ UNCHANGED <<dsQuestions, questions, idx, mi, model_responses, model_results,
                   judge_results, question_metrics, summaries, judgeCalls, failCause,
                   polled, calc>>

\* get_evaluation_status: returns the row as it is.
GetEvaluationStatus ==
    /\ evaluation # NoEvaluation
    /\ polled' = [status |-> evaluation.status, progress |-> evaluation.progress,
                  completed_questions |-> evaluation.completed_questions]
    /\ polled' # polled
    /\ UNCHANGED <<dsQuestions, evaluation, pc, models_to_test, judge_provider, questions,
                   idx, mi, model_responses, model_results, judge_results,
                   question_metrics, summaries, genErrors, judgeCalls, failCause, calc>>

-----------------------------------------------------------------------------
(* run_evaluation_background.                                               *)

\* except Exception as e: update_evaluation_status(..., "failed", error_message=str(e))
Fail(cause, msg) ==
    /\ evaluation' = FailedUpdate(evaluation, msg)
    /\ failCause' = cause
    /\ pc' = "done"

\* A variant of the loop that stops one question early.
MutAfterQuestionSkipsLast(i, n) == IF i + 2 < n THEN "query" ELSE "summary"

\* Where the loop goes after question i (0-based) is finished or skipped.
AfterQuestion(i, n) == IF i + 1 < n THEN "query" ELSE "summary"

\* update_evaluation_status(db, evaluation_id, "running", started_at=...)
StartRun ==
    /\ pc = "start"
    /\ evaluation' = update_evaluation_status(evaluation, "running", NoKwargs)
    /\ pc' = "init"
    /\ UNCHANGED <<dsQuestions, models_to_test, judge_provider, questions, idx, mi,
                   model_responses, model_results, judge_results, question_metrics,
                   summaries, genErrors, judgeCalls, failCause, polled, calc>>

\* questions = get_dataset_questions(...); RAGIndex(...); LLMJudge(...)
InitRun ==
    /\ pc = "init"
    /\ FactoryCreates(judge_provider)
    /\ questions' = dsQuestions
    /\ judgeCalls' = [q \in 1..dsQuestions |-> 0]
    /\ idx' = 0
    /\ pc' = IF dsQuestions > 0 THEN "query" ELSE "summary"
    /\ UNCHANGED <<dsQuestions, evaluation, models_to_test, judge_provider, mi,
                   model_responses, model_results, judge_results, question_metrics,
                   summaries, genErrors, failCause, polled, calc>>

\* LLMJudge.__init__ calls get_llm_provider, which raises for a provider that is
\* not registered; get_embedding_provider in RAGIndex.__init__ can raise too.
InitRunFails ==
    /\ pc = "init"
    /\ \/ ~FactoryCreates(judge_provider) /\ Fail("init", MsgUnsupported)
       \/ Fail("init", MsgEmbedding)
    /\ questions' = dsQuestions
    /\ judgeCalls' = [q \in 1..dsQuestions |-> 0]
    /\ UNCHANGED <<dsQuestions, models_to_test, judge_provider, idx, mi, model_responses,
                   model_results, judge_results, question_metrics, summaries, genErrors,
                   polled, calc>>

\* results = await rag_index.query(question.question, top_k=5)
QueryContext ==
    /\ pc = "query"
    /\ mi' = 0
    /\ model_responses' = <<>>
    /\ pc' = "generate"
    /\ UNCHANGED <<dsQuestions, evaluation, models_to_test, judge_provider, questions, idx,
                   model_results, judge_results, question_metrics, summaries, genErrors,
                   judgeCalls, failCause, polled, calc>>

\* The query embedding or the vector store raises.
QueryContextFails ==
    /\ pc = "query"
    /\ Fail("query", MsgEmbedding)
    /\ UNCHANGED <<dsQuestions, models_to_test, judge_provider, questions, idx, mi,
                   model_responses, model_results, judge_results, question_metrics,
                   summaries, genErrors, judgeCalls, polled, calc>>

\* get_llm_provider, llm.generate and create_model_result for the next model.
Generate ==
    /\ pc = "generate"
    /\ mi < Len(models_to_test)
    /\ \E o \in GenerationCallOutcomes(models_to_test[mi + 1]) \ {"raise"} :
        genErrors' = [genErrors EXCEPT ![mi + 1] = @ + (IF o = "error" THEN 1 ELSE 0)]
    /\ model_results' = Append(model_results, NewModelResult(idx + 1, mi + 1))
    /\ pc' = "metrics"
    /\ UNCHANGED <<dsQuestions, evaluation, models_to_test, judge_provider, questions, idx,
                   mi, model_responses, judge_results, question_metrics, summaries,
                   judgeCalls, failCause, polled, calc>>

\* get_llm_provider or llm.generate raises: nothing in the model loop catches it.
GenerateRaises ==
    /\ pc = "generate"
    /\ mi < Len(models_to_test)
    /\ "raise" \in GenerationCallOutcomes(models_to_test[mi + 1])
    /\ genErrors' = [genErrors EXCEPT ![mi + 1] = @ + 1]
    /\ Fail("generation", GenerationErrorMessage(models_to_test[mi + 1]))
    /\ UNCHANGED <<dsQuestions, models_to_test, judge_provider, questions, idx, mi,
                   model_responses, model_results, judge_results, question_metrics,
                   summaries, judgeCalls, polled, calc>>

\* After the last model of a question: the judge when JudgeCondition holds,
\* otherwise the progress update.
AfterModel(responses) ==
    IF Len(responses) < Len(models_to_test) THEN "generate"
    ELSE IF JudgeCondition(responses) THEN "judge" ELSE "progress"

\* try: evaluate_all_quality_metrics, QuestionMetrics(...), db.commit()
\* except Exception: continue.  Then model_responses.append(result).
\* stored = FALSE is the except branch (the import of QuestionMetrics from
\* src.db.models, the constructor or the commit raised).
StoreQuestionMetrics ==
    /\ pc = "metrics"
    /\ \E stored \in BOOLEAN :
        question_metrics' = question_metrics + (IF stored THEN 1 ELSE 0)
    /\ model_responses' = Append(model_responses, Len(model_results))
    /\ mi' = mi + 1
    /\ pc' = AfterModel(model_responses')
    /\ UNCHANGED <<dsQuestions, evaluation, models_to_test, judge_provider, questions, idx,
                   model_results, judge_results, summaries, genErrors, judgeCalls,
                   failCause, polled, calc>>

\* judge_result = await judge.judge_pair(...); create_judge_result(...)
JudgePair ==
    /\ pc = "judge"
    /\ "ok" \in JudgePairOutcomes(judge_provider)
    /\ judgeCalls' = [judgeCalls EXCEPT ![idx + 1] = @ + 1]
    /\ judge_results' = Append(judge_results, NewJudgeResult(idx + 1, model_responses))
    /\ pc' = "progress"
    /\ UNCHANGED <<dsQuestions, evaluation, models_to_test, judge_provider, questions, idx,
                   mi, model_responses, model_results, question_metrics, summaries,
                   genErrors, failCause, polled, calc>>

\* judge_pair raises: the call is outside every per-question try block.
JudgePairRaises ==
    /\ pc = "judge"
    /\ "raise" \in JudgePairOutcomes(judge_provider)
    /\ judgeCalls' = [judgeCalls EXCEPT ![idx + 1] = @ + 1]
    /\ Fail("judge", MsgJudge)
    /\ UNCHANGED <<dsQuestions, models_to_test, judge_provider, questions, idx, mi,
                   model_responses, model_results, judge_results, question_metrics,
                   summaries, genErrors, polled, calc>>

\* update_evaluation_status(db, evaluation_id, "running", completed_questions=..., progress=...)
UpdateProgress ==
    /\ pc = "progress"
    /\ evaluation' = update_evaluation_status(evaluation, "running", ProgressKwargs(idx, questions))
    /\ idx' = idx + 1
    /\ pc' = AfterQuestion(idx, questions)
    /\ UNCHANGED <<dsQuestions, models_to_test, judge_provider, questions, mi,
                   model_responses, model_results, judge_results, question_metrics,
                   summaries, genErrors, judgeCalls, failCause, polled, calc>>

\* The summary block: an EvaluationSummary row is added when all_metrics is not
\* empty and nothing in the block raises; its exceptions are caught and printed.
StoreSummary ==
    /\ pc = "summary"
    /\ question_metrics > 0
    /\ summaries' = summaries + 1
    /\ pc' = "complete"
    /\ UNCHANGED <<dsQuestions, evaluation, models_to_test, judge_provider, questions, idx,
                   mi, model_responses, model_results, judge_results, question_metrics,
                   genErrors, judgeCalls, failCause, polled, calc>>

\* all_metrics is empty, or the block raised (the import of EvaluationSummary
\* from src.db.models, the averages or the commit).
SkipSummary ==
    /\ pc = "summary"
    /\ pc' = "complete"
    /\ UNCHANGED <<dsQuestions, evaluation, models_to_test, judge_provider, questions, idx,
                   mi, model_responses, model_results, judge_results, question_metrics,
                   summaries, genErrors, judgeCalls, failCause, polled, calc>>

\* update_evaluation_status(db, evaluation_id, "completed", completed_at=..., progress=100)
Complete ==
    /\ pc = "complete"
    /\ evaluation' = CompletedUpdate(evaluation)
    /\ pc' = "done"
    /\ UNCHANGED <<dsQuestions, models_to_test, judge_provider, questions, idx, mi,
                   model_responses, model_results, judge_results, question_metrics,
                   summaries, genErrors, judgeCalls, failCause, polled, calc>>

Next ==
    \/ AddQuestion
    \/ CreateEvaluation
    \/ GetEvaluationStatus
    \/ StartRun
    \/ InitRun
    \/ InitRunFails
    \/ QueryContext
    \/ QueryContextFails
    \/ Generate
    \/ GenerateRaises
    \/ StoreQuestionMetrics
    \/ JudgePair
    \/ JudgePairRaises
    \/ UpdateProgress
    \/ StoreSummary
    \/ SkipSummary
    \/ Complete

Spec == Init /\ [][Next]_vars

-----------------------------------------------------------------------------
(* The progress computation on its own: every question count up to          *)
(* MaxProgressQuestions, every number of completed questions.               *)

ProgressInit ==
    /\ RunInit
    /\ calc \in {[n |-> n, k |-> 0, progress |-> 0] : n \in 1..MaxProgressQuestions}

ProgressStep ==
    /\ calc.k < calc.n
    /\ calc' = [n |-> calc.n, k |-> CompletedCount(calc.k),
                progress |-> ProgressKwargs(calc.k, calc.n).progress]
    /\ UNCHANGED runVars

ProgressNext == ProgressStep

SpecProgress == ProgressInit /\ [][ProgressNext]_vars

-----------------------------------------------------------------------------
(* Properties.                                                              *)

StatusTransitions ==
    {<<"none", "pending">>, <<"pending", "running">>,
     <<"running", "completed">>, <<"running", "failed">>}

\* C1: the status of a run only moves pending -> running -> completed or
\* pending -> running -> failed; no step makes any other change of status,
\* and no step changes the status of a completed or failed run.
C1_StatusTransitions ==
    [][\/ evaluation'.status = evaluation.status
       \/ <<evaluation.status, evaluation'.status>> \in StatusTransitions]_vars

\* A poll saw the run pending and the run has since completed.
C1_Witness == evaluation.status = "completed" /\ polled.status = "pending"

\* Question q has a stored result of model config m.
HasResult(q, m) ==
    \E i \in 1..Len(model_results) :
        model_results[i].question = q /\ model_results[i].model = m

\* C2: a completed run has processed every question without an exception
\* reaching the handler, and its row has progress = 100 and completed_questions
\* equal to the number of questions processed.
C2_CompletedAfterAllQuestions ==
    evaluation.status = "completed" =>
        /\ failCause = "none"
        /\ idx = questions
        /\ \A q \in 1..questions : \A m \in 1..Len(models_to_test) : HasResult(q, m)
        /\ evaluation.progress = 100
        /\ evaluation.completed_questions = questions

\* A run over two questions and two models has completed.
C2_Witness ==
    evaluation.status = "completed" /\ questions = 2 /\ Len(models_to_test) = 2

\* C3 (as claimed): after the k-th of n questions the persisted progress is
\* floor(100 * k / n).
C3_ProgressIsFloor ==
    calc.k >= 1 => calc.progress = (100 * calc.k) \div calc.n

\* C4: completed_questions and progress of the row never decrease from one
\* state to the next, so the values a poll returns never decrease either.
C4_CountersMonotonic ==
    [][/\ evaluation'.completed_questions >= evaluation.completed_questions
       /\ evaluation'.progress >= evaluation.progress
       /\ polled'.completed_questions >= polled.completed_questions
       /\ polled'.progress >= polled.progress]_vars

\* A poll saw the run half way and the run has since completed.
C4_Witness ==
    /\ evaluation.status = "completed"
    /\ polled.status = "running"
    /\ polled.progress = 50
    /\ polled.completed_questions = 1

\* C5: the step on which an exception fails the run stores a non-empty
\* error_message, ends the task, keeps every stored result and verdict and
\* leaves completed_questions and progress at their values after the last
\* finished question; after it nothing of the run changes.
C5_FailureKeepsPartialResults ==
    [][/\ (evaluation.status # "failed" /\ evaluation'.status = "failed") =>
            /\ evaluation'.error_message \notin {NULL, ""}
            /\ pc' = "done"
            /\ idx' = idx
            /\ model_results' = model_results
            /\ judge_results' = judge_results
            /\ evaluation'.completed_questions = evaluation.completed_questions
            /\ evaluation'.progress = evaluation.progress
            /\ evaluation.completed_questions = idx
            /\ evaluation.progress = ProgressValue(idx, questions)
       /\ evaluation.status = "failed" =>
            /\ evaluation' = evaluation
            /\ pc' = "done"
            /\ idx' = idx
            /\ model_results' = model_results
            /\ judge_results' = judge_results]_vars

\* The judge call of the second question failed the run after the first
\* question was judged and counted.
C5_Witness ==
    /\ evaluation.status = "failed"
    /\ evaluation.completed_questions = 1
    /\ failCause = "judge"
    /\ Len(judge_results) = 1
    /\ Len(model_results) = 4

\* C6 (as claimed): in a two-model run a failing generation call of one model
\* never moves the run to failed.
C6_GenerationFailureNeverFailsRun ==
    ~(/\ Len(models_to_test) = 2
      /\ evaluation.status = "failed"
      /\ failCause = "generation")

\* C7 (as claimed): in a completed run the error_count of every model equals
\* the number of its generation calls that returned or raised an error.
C7_ErrorCountMatchesErrors ==
    evaluation.status = "completed" =>
        \A m \in 1..Len(models_to_test) : ErrorCount(m) = genErrors[m]

\* C8 (as claimed): a failing pairwise judge call does not move the run to
\* failed.
C8_JudgeFailureNeverFailsRun ==
    ~(evaluation.status = "failed" /\ failCause = "judge")

\* The verdicts stored for question q.
VerdictsOf(q) == {i \in 1..Len(judge_results) : judge_results[i].question = q}

\* The judge call of question q returned (it did not fail the run).
JudgeReturned(q) == judgeCalls[q] = 1 /\ ~(failCause = "judge" /\ q = idx + 1)

\* C9: the judge is invoked at most once per question, only in a two-model run
\* and only after both results of the question are stored; every finished
\* question of a two-model run was judged and no question of another run was;
\* a question whose judge call returned has exactly one verdict, which
\* references the two results of that question, and no other question has one.
C9_JudgeOncePerQuestion ==
    \A q \in DOMAIN judgeCalls :
        /\ judgeCalls[q] <= 1
        /\ judgeCalls[q] = 1 =>
            /\ Len(models_to_test) = 2
            /\ HasResult(q, 1) /\ HasResult(q, 2)
        /\ q <= evaluation.completed_questions =>
            (judgeCalls[q] = 1 <=> Len(models_to_test) = 2)
        /\ Cardinality(VerdictsOf(q)) = (IF JudgeReturned(q) THEN 1 ELSE 0)
        /\ \A i \in VerdictsOf(q) :
            LET a == judge_results[i].model_a_result
                b == judge_results[i].model_b_result
            IN /\ a \in 1..Len(model_results) /\ b \in 1..Len(model_results)
               /\ model_results[a] = NewModelResult(q, 1)
               /\ model_results[b] = NewModelResult(q, 2)

\* Both questions of a two-model run have a verdict.
C9_Witness ==
    /\ Len(models_to_test) = 2
    /\ questions = 2
    /\ Len(judge_results) = 2
    /\ evaluation.completed_questions = 2

\* C10 (as claimed): a completed run has exactly one summary row.
C10_CompletedHasOneSummary ==
    evaluation.status = "completed" => summaries = 1

-----------------------------------------------------------------------------
(* External calls that never return.  run_evaluation_background awaits the  *)
(* query embedding (RAGIndex.query), the generation (llm.generate) and the  *)
(* judge (rubric metrics and judge_pair).  A call that never returns ends   *)
(* only if the source arms a timeout around it.                             *)

\* The timeout the source arms around the call of a site.  RAGIndex.query
\* awaits embed_texts directly (the asyncio.wait_for of
\* _generate_embeddings_with_retry is used by add_chunks only); the OpenAI and
\* Anthropic clients are built without a timeout and awaited without wait_for;
\* HuggingFaceProvider passes timeout=120 to requests.post.
CallHasTimeout(site, p) ==
    IF site = "query" THEN FALSE ELSE p = "huggingface"

\* The awaited call of the current position never returns.
ExternalCallHangs ==
    /\ \/ pc = "query" /\ ~CallHasTimeout("query", NULL)
       \/ /\ pc = "generate"
          /\ mi < Len(models_to_test)
          /\ FactoryCreates(models_to_test[mi + 1])
          /\ ~CallHasTimeout("generate", models_to_test[mi + 1])
       \/ pc \in {"metrics", "judge"} /\ ~CallHasTimeout("judge", judge_provider)
    /\ pc' = "hung"
    /\ UNCHANGED <<dsQuestions, evaluation, models_to_test, judge_provider, questions, idx,
                   mi, model_responses, model_results, judge_results, question_metrics,
                   summaries, genErrors, judgeCalls, failCause, polled, calc>>

\* The steps of the background task.
RunStep ==
    \/ StartRun \/ InitRun \/ InitRunFails \/ QueryContext \/ QueryContextFails
    \/ Generate \/ GenerateRaises \/ StoreQuestionMetrics \/ JudgePair
    \/ JudgePairRaises \/ UpdateProgress \/ StoreSummary \/ SkipSummary \/ Complete

NextExternal == Next \/ ExternalCallHangs

SpecExternal == Init /\ [][NextExternal]_vars

\* C11 (as claimed): a running run whose awaited external call never returns
\* can still take a step of the background task (the timeout of the call ends
\* it), so that a scheduled worker brings the run to completed or failed; no
\* run is left running with its task waiting forever.
C11_RunningRunCanStep ==
    (evaluation.status = "running" /\ pc = "hung") => ENABLED RunStep

-----------------------------------------------------------------------------
(* Rubric metrics: LLMJudge.evaluate_accuracy / evaluate_faithfulness /     *)
(* evaluate_reasoning / evaluate_context_utilization, the QuestionMetrics   *)
(* row run_evaluation_background stores for every model result, and the     *)
(* averages of the summary block.  The four score columns are evaluated and *)
(* averaged independently by the same code, so one column is followed; the  *)
(* last three evaluators are the same code and faithfulness stands for them.*)
(* Scores are counted in units of 1/ScoreUnit.                              *)

MaxRows == 2
MaxExcess == 1
MaxLatency == 2
MaxCost == 1

\* The score 1.0 of  max(0.0, min(1.0, score)).
ScoreUnit == 2

\* An Optional[float]: None, or a number of units.
NoScore == [isNone |-> TRUE, value |-> 0]
SomeScore(v) == [isNone |-> FALSE, value |-> v]

Criteria == {"accuracy", "faithfulness"}

\* What the judge call of a criterion can come back with: an LLMResponse whose
\* error is set, a text without a JSON object, an object without "score", an
\* object whose "score" is not a number, or an object with a numeric score
\* (whatever the judge model chose to write).
RubricResponses ==
    {[kind |-> k, value |-> 0] : k \in {"error", "unparseable", "noscore", "badscore"}}
        \cup {[kind |-> "score", value |-> v] : v \in (0 - MaxExcess)..(ScoreUnit + MaxExcess)}

\* No judge call was made (evaluate_accuracy without an expected answer).
NoResponse == [kind |-> "none", value |-> 0]

Min(a, b) == IF a < b THEN a ELSE b
Max(a, b) == IF a > b THEN a ELSE b

\* score = max(0.0, min(1.0, score))
ClampScore(v) == Max(0, Min(ScoreUnit, v))

\* The "score" of the dict an evaluator returns.  response.error returns 0.0;
\* _extract_json or float() raising is caught and returns 0.0; a missing
\* "score" is read as 0.0.
EvaluatorScore(resp) ==
    IF resp.kind = "none" THEN NoScore
    ELSE IF resp.kind \in {"error", "unparseable", "badscore"} THEN SomeScore(0)
    ELSE IF resp.kind = "noscore" THEN SomeScore(ClampScore(0))
    ELSE SomeScore(ClampScore(resp.value))

\* The judge responses an evaluator can meet: evaluate_accuracy returns before
\* the call when the question has no expected answer.
ResponsesFor(criterion, hasExpected) ==
    IF criterion = "accuracy" /\ ~hasExpected THEN {NoResponse} ELSE RubricResponses

\* What llm.generate returned for the result the row belongs to: an answer
\* with its cost, or (OpenAI/Anthropic) an LLMResponse with error set, empty
\* content and cost 0.0.  latency_ms is the wall time of the call either way.
GenerationResponses ==
    {[error |-> FALSE, latency_ms |-> l, cost_usd |-> c] :
        l \in 1..MaxLatency, c \in 1..MaxCost}
        \cup {[error |-> TRUE, latency_ms |-> l, cost_usd |-> 0] : l \in 1..MaxLatency}

\* QuestionMetrics(...) as the loop builds it, for the column followed; gen
\* and judge record what the two calls returned.
NewQuestionMetrics(gen, resp) ==
    [score |-> EvaluatorScore(resp), latency_ms |-> gen.latency_ms,
     cost_usd |-> gen.cost_usd, gen_error |-> gen.error, judge |-> resp.kind]

\* sum(f(row) for row in rows)
RECURSIVE SumScores(_)
SumScores(rows) ==
    IF rows = <<>> THEN 0
    ELSE (IF Head(rows).score.isNone THEN 0 ELSE Head(rows).score.value)
            + SumScores(Tail(rows))

RECURSIVE SumField(_, _)
SumField(rows, f) ==
    IF rows = <<>> THEN 0 ELSE Head(rows)[f] + SumField(Tail(rows), f)

\* The rows whose score column is not None.
ScoredRows(rows) == {i \in 1..Len(rows) : ~rows[i].score.isNone}

\* An average kept as the quotient the code divides: num / den, or None.
NoAverage == [isNone |-> TRUE, num |-> 0, den |-> 1]
Average(num, den) == [isNone |-> FALSE, num |-> num, den |-> den]

\* avg_accuracy = sum(scores that are not None) / count(scores that are not
\* None) if any score is not None else None
AverageScore(rows) ==
    IF ScoredRows(rows) = {} THEN NoAverage
    ELSE Average(SumScores(rows), Cardinality(ScoredRows(rows)))

\* The EvaluationSummary of the summary block (total_metrics = len(all_metrics)).
\* avg_latency_ms is int() of the quotient kept here.
NewEvaluationSummary(rows) ==
    [avg_score |-> AverageScore(rows),
     avg_latency_ms |-> Average(SumField(rows, "latency_ms"), Len(rows)),
     avg_cost_usd |-> Average(SumField(rows, "cost_usd"), Len(rows)),
     total_cost_usd |-> SumField(rows, "cost_usd"),
     total_model_tests |-> Len(rows),
     successful_evaluations |-> Len(rows),
     failed_evaluations |-> 0]

\* No EvaluationSummary row.
NoSummary ==
    [avg_score |-> NoAverage, avg_latency_ms |-> NoAverage, avg_cost_usd |-> NoAverage,
     total_cost_usd |-> 0, total_model_tests |-> 0, successful_evaluations |-> 0,
     failed_evaluations |-> 0]

RubricIdle(criterion) ==
    [criterion |-> criterion, rows |-> <<>>, summarized |-> FALSE, summary |-> NoSummary]

RubricInit ==
    /\ RunInit
    /\ calc \in {RubricIdle(c) : c \in Criteria}

\* One pass of the model loop after create_model_result: the evaluator of the
\* column runs and the QuestionMetrics row is added.
EvaluateQualityMetrics ==
    /\ ~calc.summarized
    /\ Len(calc.rows) < MaxRows
    /\ \E gen \in GenerationResponses, hasExpected \in BOOLEAN :
        \E resp \in ResponsesFor(calc.criterion, hasExpected) :
            calc' = [calc EXCEPT !.rows = Append(@, NewQuestionMetrics(gen, resp))]
    /\ UNCHANGED runVars

\* The summary block after the loop:  if all_metrics: ... db.add(summary).
StoreEvaluationSummary ==
    /\ ~calc.summarized
    /\ calc.rows # <<>>
    /\ calc' = [calc EXCEPT !.summarized = TRUE,
                            !.summary = NewEvaluationSummary(calc.rows)]
    /\ UNCHANGED runVars

RubricNext == EvaluateQualityMetrics \/ StoreEvaluationSummary

SpecRubric == RubricInit /\ [][RubricNext]_vars

\* C12 (as claimed): a criterion whose judge call failed or whose response
\* could not be parsed is stored without a score; no number stands in for it.
C12_FailedCriterionHasNoScore ==
    \A i \in 1..Len(calc.rows) :
        calc.rows[i].judge \in {"error", "unparseable"} => calc.rows[i].score = NoScore

\* The rows whose rubric evaluation did not fail, and those whose generation
\* did not fail.
JudgedRows(rows) ==
    {i \in 1..Len(rows) : rows[i].judge \notin {"none", "error", "unparseable"}}
GeneratedRows(rows) == {i \in 1..Len(rows) : ~rows[i].gen_error}

\* C19 (as claimed): the averages of the stored summary are taken over the
\* items that did not fail: the score average over the rows whose rubric
\* evaluation returned a score, the latency and cost averages over the rows
\* whose generation succeeded; a failed item adds nothing to a denominator.
C19_FailuresLeftOutOfAverages ==
    calc.summarized =>
        /\ IF JudgedRows(calc.rows) = {} THEN calc.summary.avg_score = NoAverage
           ELSE calc.summary.avg_score.den = Cardinality(JudgedRows(calc.rows))
        /\ GeneratedRows(calc.rows) # {} =>
            /\ calc.summary.avg_latency_ms.den = Cardinality(GeneratedRows(calc.rows))
            /\ calc.summary.avg_cost_usd.den = Cardinality(GeneratedRows(calc.rows))

-----------------------------------------------------------------------------
(* The pairwise verdict: LLMJudge.judge_pair builds a JudgeResult from the  *)
(* JSON object the judge model wrote.  A key of the object is absent or     *)
(* holds a value; pairwise scores are whole points, confidence is counted   *)
(* in units of 1/ScoreUnit like the rubric scores.                          *)

\* "score_a": <score 0-10 for Model A>
PairScoreMax == 10

Absent(default) == [present |-> FALSE, value |-> default]
Present(v) == [present |-> TRUE, value |-> v]

\* dict.get(key, default)
Get(field, default) == IF field.present THEN field.value ELSE default

\* The numbers a judge model may write where 0..top is asked for.
JudgeNumbers(top) ==
    ((0 - MaxExcess)..0) \cup {top \div 2} \cup (top..(top + MaxExcess))

OptionalNumbers(top) == {Absent(0)} \cup {Present(v) : v \in JudgeNumbers(top)}

\* The strings a judge model may write as the winner.
OptionalWinners ==
    {Absent("")} \cup {Present(w) : w \in {"model_a", "model_b", "tie", "both_bad"}}

\* The JSON objects _extract_json can hand to judge_pair.  criteria_scores is
\* followed through one entry, correctness of model_a.
Judgments ==
    [winner : OptionalWinners,
     score_a : OptionalNumbers(PairScoreMax),
     score_b : OptionalNumbers(PairScoreMax),
     confidence : OptionalNumbers(ScoreUnit),
     criteria_scores : OptionalNumbers(PairScoreMax)]

\* JudgeResult(winner=judgment.get('winner', 'tie'),
\*             score_a=float(judgment.get('score_a', 0)), ...,
\*             confidence=float(judgment.get('confidence', 0.5)),
\*             criteria_scores=judgment.get('criteria_scores', {}))
NewJudgeVerdict(judgment) ==
    [winner |-> Get(judgment.winner, "tie"),
     score_a |-> Get(judgment.score_a, 0),
     score_b |-> Get(judgment.score_b, 0),
     confidence |-> Get(judgment.confidence, ScoreUnit \div 2),
     criteria_scores |-> judgment.criteria_scores]

NoVerdict == NewJudgeVerdict([f \in {"winner", "score_a", "score_b", "confidence",
                                     "criteria_scores"} |->
                                 IF f = "winner" THEN Absent("") ELSE Absent(0)])

JudgeInit ==
    /\ RunInit
    /\ calc \in {[judgment |-> j, returned |-> FALSE, result |-> NoVerdict] : j \in Judgments}

\* judge_pair returns and create_judge_result stores the fields as they are.
JudgePairReturns ==
    /\ ~calc.returned
    /\ calc' = [calc EXCEPT !.returned = TRUE, !.result = NewJudgeVerdict(calc.judgment)]
    /\ UNCHANGED runVars

JudgeNext == JudgePairReturns

SpecJudge == JudgeInit /\ [][JudgeNext]_vars

\* C13 (as claimed): whatever the judge model wrote, the verdict has
\* score_a, score_b and its sub-scores in [0,10], confidence in [0,1] and a
\* winner among model_a, model_b, tie; every rubric score is in [0,1] or null.
C13_JudgeScoresInRange ==
    /\ calc.returned =>
        /\ calc.result.winner \in {"model_a", "model_b", "tie"}
        /\ calc.result.score_a \in 0..PairScoreMax
        /\ calc.result.score_b \in 0..PairScoreMax
        /\ calc.result.confidence \in 0..ScoreUnit
        /\ calc.result.criteria_scores.present =>
                calc.result.criteria_scores.value \in 0..PairScoreMax
    /\ \A resp \in RubricResponses \cup {NoResponse} :
        \/ EvaluatorScore(resp) = NoScore
        \/ EvaluatorScore(resp).value \in 0..ScoreUnit

-----------------------------------------------------------------------------
(* LLMJudge._extract_json on a response text.  The text is a sequence of    *)
(* tokens: the two braces, "m" (a member  "key": scalar ), "k" (a key and   *)
(* its colon, to be followed by an object) and "x" (any other prose).  An   *)
(* object is  { member* }  where a member is "m" or "k" followed by an      *)
(* object.                                                                  *)

MaxTextLen == 5

Tokens == {"{", "}", "m", "k", "x"}

Texts == UNION {[1..n -> Tokens] : n \in 0..MaxTextLen}

\* The decoder of json.loads: ParseObject(s, i) is the position after the
\* object that starts at position i of s, or 0 when no object starts there.
RECURSIVE ParseObject(_, _), ParseMembers(_, _)
ParseObject(s, i) ==
    IF i > Len(s) \/ s[i] # "{" THEN 0 ELSE ParseMembers(s, i + 1)

ParseMembers(s, i) ==
    IF i > Len(s) THEN 0
    ELSE IF s[i] = "}" THEN i + 1
    ELSE IF s[i] = "m" THEN ParseMembers(s, i + 1)
    ELSE IF s[i] = "k" THEN
        LET j == ParseObject(s, i + 1) IN IF j = 0 THEN 0 ELSE ParseMembers(s, j)
    ELSE 0

\* The outcome of a parse: the span of the text returned as the object, or
\* json.JSONDecodeError.
DecodeError == [ok |-> FALSE, first |-> 0, last |-> 0]
Decoded(first, last) == [ok |-> TRUE, first |-> first, last |-> last]

\* json.loads(text[first..last]): the whole string must be one object.
JsonLoads(s, first, last) ==
    IF first <= last /\ ParseObject(SubSeq(s, first, last), 1) = last - first + 2
    THEN Decoded(first, last)
    ELSE DecodeError

\* re.search(r'\{[\s\S]*\}', text): from the first "{" to the last "}" of the
\* text, <<0, 0>> when there is no match.
RegexSearch(s) ==
    LET opens == {i \in 1..Len(s) : s[i] = "{"}
        closes == {j \in 1..Len(s) : s[j] = "}"}
        first == CHOOSE i \in opens : \A o \in opens : i <= o
        last == CHOOSE j \in closes : \A c \in closes : j >= c
    IN IF opens = {} \/ closes = {} THEN <<0, 0>>
       ELSE IF last < first THEN <<0, 0>>
       ELSE <<first, last>>

\* _extract_json
extract_json(text) ==
    LET json_match == RegexSearch(text)
    IN IF json_match # <<0, 0>> THEN JsonLoads(text, json_match[1], json_match[2])
       ELSE JsonLoads(text, 1, Len(text))

ExtractInit ==
    /\ RunInit
    /\ calc \in {[text |-> t, returned |-> FALSE, result |-> DecodeError] : t \in Texts}

ExtractJson ==
    /\ ~calc.returned
    /\ calc' = [calc EXCEPT !.returned = TRUE, !.result = extract_json(calc.text)]
    /\ UNCHANGED runVars

ExtractNext == ExtractJson

SpecExtract == ExtractInit /\ [][ExtractNext]_vars

\* The positions of the text at which a well-formed object starts.
ObjectStarts(text) == {i \in 1..Len(text) : ParseObject(text, i) # 0}

\* C14 (as claimed): _extract_json returns the first well-formed object of
\* the text, wherever it stands, and fails only when the text holds none.
C14_ExtractsFirstObject ==
    calc.returned =>
        IF ObjectStarts(calc.text) = {} THEN calc.result = DecodeError
        ELSE LET i == CHOOSE s \in ObjectStarts(calc.text) :
                        \A o \in ObjectStarts(calc.text) : s <= o
             IN calc.result = Decoded(i, ParseObject(calc.text, i) - 1)

-----------------------------------------------------------------------------
(* MetricsCalculator._percentile.  Values are whole numbers; a result is    *)
(* kept as twice its value, so that (lower + upper) / 2 stays whole.        *)

MaxDataLen == 4
MaxValue == 3

DataLists == UNION {[1..n -> 1..MaxValue] : n \in 0..MaxDataLen}

\* sorted(data)
RECURSIVE InsertSorted(_, _)
InsertSorted(x, s) ==
    IF s = <<>> THEN <<x>>
    ELSE IF x <= Head(s) THEN <<x>> \o s
    ELSE <<Head(s)>> \o InsertSorted(x, Tail(s))

RECURSIVE sorted(_)
sorted(data) ==
    IF data = <<>> THEN <<>> ELSE InsertSorted(Head(data), sorted(Tail(data)))

\* _percentile(data, percentile), doubled.  index = (percentile / 100) * len;
\* for percentile = 50 the float product is exactly len / 2.  Python indexes
\* from 0, sequences from 1.
percentile2(data, percentile) ==
    IF data = <<>> THEN 0
    ELSE LET sorted_data == sorted(data)
             n == Len(sorted_data)
             int_index == (percentile * n) \div 100
             is_integer == (percentile * n) % 100 = 0
         IN IF is_integer THEN 2 * sorted_data[int_index + 1]
            ELSE LET lower == sorted_data[int_index + 1]
                     upper == sorted_data[Min(int_index + 1, n - 1) + 1]
                 IN lower + upper

PercentileInit ==
    /\ RunInit
    /\ calc \in {[data |-> d, returned |-> FALSE, result |-> 0] : d \in DataLists}

Percentile50 ==
    /\ ~calc.returned
    /\ calc' = [calc EXCEPT !.returned = TRUE, !.result = percentile2(calc.data, 50)]
    /\ UNCHANGED runVars

PercentileNext == Percentile50

SpecPercentile == PercentileInit /\ [][PercentileNext]_vars

\* Twice the median of a non-empty list: the middle element of the sorted
\* list for an odd length, the mean of the two middle elements for an even one.
Median2(data) ==
    LET s == sorted(data)
        n == Len(s)
    IN IF n % 2 = 1 THEN 2 * s[(n + 1) \div 2]
       ELSE s[n \div 2] + s[n \div 2 + 1]

\* C15 (as claimed): for every non-empty list, _percentile(data, 50) is the
\* median of the list.
C15_Percentile50IsMedian ==
    (calc.returned /\ calc.data # <<>>) => calc.result = Median2(calc.data)

-----------------------------------------------------------------------------
(* Win, tie and loss rates of MetricsCalculator.calculate_model_metrics.    *)
(* A rate is kept in hundredths of a percent: round(rate, 2) * 100.         *)

MaxVerdicts == 5

\* The winner column of a stored verdict: judge_pair stores what the judge
\* wrote, so a string other than model_a, model_b and tie can be there.
Winners == {"model_a", "model_b", "tie", "both_bad"}

WinnerLists == UNION {[1..n -> Winners] : n \in 0..MaxVerdicts}

\* sum(1 for j in judge_results if j.get('winner') == w)
CountWinner(verdicts, w) ==
    Cardinality({i \in 1..Len(verdicts) : verdicts[i] = w})

OtherModel(model_identifier) ==
    IF model_identifier = "model_a" THEN "model_b" ELSE "model_a"

\* A variant that counts as losses the verdicts the other model won.
MutLossesCountsOtherModel(verdicts, model_identifier) ==
    CountWinner(verdicts, OtherModel(model_identifier))

\* losses = len(judge_results) - wins - ties
Losses(verdicts, model_identifier) ==
    Len(verdicts) - CountWinner(verdicts, model_identifier)
        - CountWinner(verdicts, "tie")

\* bits * 100, exactly: 100 = 64 + 32 + 4.
TimesHundred(bits) ==
    AddBits(AddBits(Zeros(6) \o bits, Zeros(5) \o bits, 0), Zeros(2) \o bits, 0)

\* The integer nearest to bits * 2^(-sh), ties to even.
RoundToInt(bits, sh) ==
    IF sh <= 0 THEN BitsToInt(Zeros(0 - sh) \o bits)
    ELSE LET whole == IF sh >= Len(bits) THEN 0
                      ELSE BitsToInt(SubSeq(bits, sh + 1, Len(bits)))
             guard == IF sh <= Len(bits) THEN bits[sh] ELSE 0
             sticky == \E i \in 1..Min(sh - 1, Len(bits)) : bits[i] = 1
             up == guard = 1 /\ (sticky \/ whole % 2 = 1)
         IN whole + (IF up THEN 1 ELSE 0)

\* round(x, 2) of a non-negative double, in hundredths: the decimal with two
\* places nearest to the exact value of x.
Round2(x) == RoundToInt(TimesHundred(x.m), x.sh)

\* round((count / len(judge_results)) * 100, 2), in hundredths.
Rate(count, n) ==
    IF count = 0 THEN 0
    ELSE IF count = n THEN 10000
    ELSE Round2(FloatMul100(FloatDiv(count, n)))

\* The three rates of the ModelMetrics; 0 each when judge_results is empty.
JudgeRates(verdicts, model_identifier) ==
    IF verdicts = <<>>
    THEN [win_rate |-> 0, tie_rate |-> 0, loss_rate |-> 0]
    ELSE LET n == Len(verdicts)
         IN [win_rate |-> Rate(CountWinner(verdicts, model_identifier), n),
             tie_rate |-> Rate(CountWinner(verdicts, "tie"), n),
             loss_rate |-> Rate(Losses(verdicts, model_identifier), n)]

RatesInit ==
    /\ RunInit
    /\ calc \in {[verdicts |-> js, model_identifier |-> id, returned |-> FALSE,
                  metrics |-> JudgeRates(<<>>, id)] :
                    js \in WinnerLists, id \in {"model_a", "model_b"}}

CalculateModelMetrics ==
    /\ ~calc.returned
    /\ calc' = [calc EXCEPT !.returned = TRUE,
                            !.metrics = JudgeRates(calc.verdicts, calc.model_identifier)]
    /\ UNCHANGED runVars

RatesNext == CalculateModelMetrics

SpecRates == RatesInit /\ [][RatesNext]_vars

\* C16: the three rates of calculate_model_metrics each lie in [0,100]; for a
\* non-empty list of verdicts and either model identifier they add up to 100
\* within the tolerance of three roundings to two places (0.01), and for an
\* empty list all three are 0.
C16_RatesSumToHundred ==
    calc.returned =>
        LET m == calc.metrics
        IN /\ m.win_rate \in 0..10000
           /\ m.tie_rate \in 0..10000
           /\ m.loss_rate \in 0..10000
           /\ IF calc.verdicts = <<>>
              THEN m.win_rate = 0 /\ m.tie_rate = 0 /\ m.loss_rate = 0
              ELSE m.win_rate + m.tie_rate + m.loss_rate \in 9999..10001

\* One win, one tie and one verdict outside the three documented winners:
\* each rate is 33.33 and the sum 99.99.
C16_Witness ==
    /\ calc.returned
    /\ Len(calc.verdicts) = 3
    /\ "both_bad" \in {calc.verdicts[i] : i \in 1..3}
    /\ calc.metrics = [win_rate |-> 3333, tie_rate |-> 3333, loss_rate |-> 3333]

-----------------------------------------------------------------------------
(* calculate_overall_score.  An axis of the dict is missing, None, or a     *)
(* score k / MaxAxisSteps with 0 <= k <= MaxAxisSteps; weights are counted  *)
(* in hundredths and the result is kept as the quotient the code divides.   *)

MaxAxisSteps == 3

\* weights = {"accuracy": 0.30, "faithfulness": 0.30, "reasoning": 0.20,
\*            "context_utilization": 0.20}, in the order the loop visits them.
AxisOrder == <<"accuracy", "faithfulness", "reasoning", "context_utilization">>
Weights ==
    [accuracy |-> 30, faithfulness |-> 30, reasoning |-> 20, context_utilization |-> 20]

Axes == {AxisOrder[i] : i \in 1..Len(AxisOrder)}

AxisMissing == [kind |-> "missing", k |-> 0]
AxisNone == [kind |-> "none", k |-> 0]
AxisValue(k) == [kind |-> "value", k |-> k]

AxisInputs == {AxisMissing, AxisNone} \cup {AxisValue(k) : k \in 0..MaxAxisSteps}

\* A variant that reads a missing or None axis as the score 0.
MutAxisReadAsZero(score) == TRUE

\* score = metrics.get(metric);  if score is not None
ScoreIsNotNone(score) == score.kind = "value"

\* The loop over weights.items(): total_score and total_weight after the
\* axes from position i on, as multiples of 1/(100 * MaxAxisSteps) and 1/100.
RECURSIVE WeightedTotals(_, _)
WeightedTotals(metrics, i) ==
    IF i > Len(AxisOrder) THEN [total_score |-> 0, total_weight |-> 0]
    ELSE LET rest == WeightedTotals(metrics, i + 1)
             metric == AxisOrder[i]
         IN IF ScoreIsNotNone(metrics[metric])
            THEN [total_score |-> rest.total_score + metrics[metric].k * Weights[metric],
                  total_weight |-> rest.total_weight + Weights[metric]]
            ELSE rest

\* calculate_overall_score: 0.0 when total_weight == 0, otherwise
\* total_score / total_weight.
calculate_overall_score(metrics) ==
    LET t == WeightedTotals(metrics, 1)
    IN IF t.total_weight = 0 THEN [num |-> 0, den |-> 1]
       ELSE [num |-> t.total_score, den |-> t.total_weight * MaxAxisSteps]

OverallInit ==
    /\ RunInit
    /\ calc \in {[metrics |-> m, returned |-> FALSE, overall |-> [num |-> 0, den |-> 1]] :
                    m \in [Axes -> AxisInputs]}

CalculateOverallScore ==
    /\ ~calc.returned
    /\ calc' = [calc EXCEPT !.returned = TRUE,
                            !.overall = calculate_overall_score(calc.metrics)]
    /\ UNCHANGED runVars

OverallNext == CalculateOverallScore

SpecOverall == OverallInit /\ [][OverallNext]_vars

\* The axes of a dict that hold a score.
PresentAxes(metrics) == {a \in Axes : metrics[a].kind = "value"}

\* The weight 30/30/20/20 of an axis that holds a score, 0 for any other.
PresentWeight(metrics, a) ==
    IF a \in PresentAxes(metrics)
    THEN (IF a \in {"accuracy", "faithfulness"} THEN 30 ELSE 20)
    ELSE 0

\* The dict with axis a switched between missing and None.
ToggleNull(metrics, a) ==
    [metrics EXCEPT ![a] = IF @ = AxisMissing THEN AxisNone ELSE AxisMissing]

\* C17: calculate_overall_score returns the mean of the axes that hold a
\* score, weighted 30/30/20/20 and renormalized over those axes; 0 when no axis
\* holds one, 1 when all four are 1, a value in [0,1] for scores in [0,1], and
\* the same value when an axis without a score is added to or removed from
\* the dict.
C17_OverallScoreIsWeightedMean ==
    calc.returned =>
        LET m == calc.metrics
            o == calc.overall
            wsum == PresentWeight(m, "accuracy") + PresentWeight(m, "faithfulness")
                        + PresentWeight(m, "reasoning")
                        + PresentWeight(m, "context_utilization")
            ssum == PresentWeight(m, "accuracy") * m.accuracy.k
                        + PresentWeight(m, "faithfulness") * m.faithfulness.k
                        + PresentWeight(m, "reasoning") * m.reasoning.k
                        + PresentWeight(m, "context_utilization") * m.context_utilization.k
        IN /\ o.den > 0
           /\ o.num * wsum * MaxAxisSteps = ssum * o.den
           /\ PresentAxes(m) = {} => o.num = 0
           /\ (\A a \in Axes : m[a] = AxisValue(MaxAxisSteps)) => o.num = o.den
           /\ 0 <= o.num /\ o.num <= o.den
           /\ \A a \in Axes \ PresentAxes(m) :
                calculate_overall_score(ToggleNull(m, a)) = o

\* Accuracy is None, the other three axes are 1: the result is renormalized
\* over the weight 70 and equals 1.
C17_Witness ==
    /\ calc.returned
    /\ calc.metrics.accuracy = AxisNone
    /\ \A a \in Axes \ {"accuracy"} : calc.metrics[a] = AxisValue(MaxAxisSteps)
    /\ calc.overall = [num |-> 70 * MaxAxisSteps, den |-> 70 * MaxAxisSteps]

-----------------------------------------------------------------------------
(* MetricsCalculator.compare_models and _determine_winner.  The metrics it  *)
(* compares are Python floats rounded to a fixed number of places; a value  *)
(* is given in hundredths and followed as the double [neg, m, sh] =         *)
(* (-1)^neg * m * 2^(-sh) that round(., 2) returns for it.                  *)

MaxHundredths == 12

\* threshold: float = 0.05, in hundredths.
ThresholdHundredths == 5

\* The least p with k < n * 2^p.
RECURSIVE ScaleBits(_, _)
ScaleBits(k, n) == IF k < n THEN 0 ELSE 1 + ScaleBits(k, 2 * n)

RECURSIVE TwoTo(_)
TwoTo(p) == IF p = 0 THEN 1 ELSE 2 * TwoTo(p - 1)

\* The double nearest to k / 100, k >= 0.
DoubleOfHundredths(k) ==
    IF k = 0 THEN [neg |-> FALSE, m |-> <<>>, sh |-> 0]
    ELSE LET p == ScaleBits(k, 100)
             x == FloatDiv(k, 100 * TwoTo(p))
         IN [neg |-> FALSE, m |-> x.m, sh |-> x.sh - p]

\* Bits without the zeros above the highest 1.
RECURSIVE StripHigh(_)
StripHigh(bits) ==
    IF bits = <<>> THEN <<>>
    ELSE IF bits[Len(bits)] = 1 THEN bits
    ELSE StripHigh(SubSeq(bits, 1, Len(bits) - 1))

\* a < b for two bit sequences read as numbers.
RECURSIVE LessFrom(_, _, _)
LessFrom(a, b, i) ==
    IF i = 0 THEN FALSE
    ELSE LET x == IF i <= Len(a) THEN a[i] ELSE 0
             y == IF i <= Len(b) THEN b[i] ELSE 0
         IN IF x # y THEN x < y ELSE LessFrom(a, b, i - 1)

LessBits(a, b) == LessFrom(a, b, Max(Len(a), Len(b)))

\* a - b for a >= b.
RECURSIVE SubBits(_, _, _)
SubBits(a, b, borrow) ==
    IF a = <<>> THEN <<>>
    ELSE LET y == IF b = <<>> THEN 0 ELSE Head(b)
             d == Head(a) - y - borrow
         IN <<d % 2>> \o SubBits(Tail(a), IF b = <<>> THEN b ELSE Tail(b),
                                 IF d < 0 THEN 1 ELSE 0)

\* The significand of x at the scale 2^(-sh), sh >= x.sh.
AtScale(x, sh) == Zeros(sh - x.sh) \o x.m

\* |x| < |y|, exactly.
MagnitudeLess(x, y) ==
    LET sh == Max(x.sh, y.sh) IN LessBits(AtScale(x, sh), AtScale(y, sh))

\* x - y for two doubles of the same sign, rounded to nearest even.
FloatSub(x, y) ==
    LET sh == Max(x.sh, y.sh)
        swap == MagnitudeLess(x, y)
        big == IF swap THEN AtScale(y, sh) ELSE AtScale(x, sh)
        small == IF swap THEN AtScale(x, sh) ELSE AtScale(y, sh)
        r == RoundNearestEven(StripHigh(SubBits(big, small, 0)))
    IN [neg |-> IF swap THEN ~x.neg ELSE x.neg, m |-> r.m, sh |-> sh - r.dropped]

\* -x
FloatNeg(x) == [x EXCEPT !.neg = ~@]

\* x > 0
FloatPositive(x) == ~x.neg /\ StripHigh(x.m) # <<>>

\* threshold: float = 0.05
Threshold == DoubleOfHundredths(ThresholdHundredths)

\* A variant of _determine_winner that also ties at the threshold itself.
MutDetermineWinnerInclusive(score_a, score_b) ==
    LET diff == FloatSub(score_a, score_b)
    IN IF ~MagnitudeLess(Threshold, diff) THEN "tie"
       ELSE IF FloatPositive(diff) THEN "model_a" ELSE "model_b"

\* _determine_winner: diff = score_a - score_b; 'tie' if abs(diff) < threshold,
\* else 'model_a' if diff > 0 else 'model_b'.
determine_winner(score_a, score_b) ==
    LET diff == FloatSub(score_a, score_b)
    IN IF MagnitudeLess(diff, Threshold) THEN "tie"
       ELSE IF FloatPositive(diff) THEN "model_a" ELSE "model_b"

\* The three winners of the dict compare_models returns (its other entries
\* are the names, the absolute differences and the win rates of the inputs).
compare_models(metrics_a, metrics_b) ==
    [quality_winner |->
        determine_winner(DoubleOfHundredths(metrics_a.avg_score),
                         DoubleOfHundredths(metrics_b.avg_score)),
     speed_winner |->
        determine_winner(FloatNeg(DoubleOfHundredths(metrics_a.avg_latency_ms)),
                         FloatNeg(DoubleOfHundredths(metrics_b.avg_latency_ms))),
     cost_winner |->
        determine_winner(FloatNeg(DoubleOfHundredths(metrics_a.total_cost_usd)),
                         FloatNeg(DoubleOfHundredths(metrics_b.total_cost_usd)))]

\* The fields of ModelMetrics that compare_models reads.
ComparedFields == {"avg_score", "avg_latency_ms", "total_cost_usd"}

\* Pairs of ModelMetrics: one field takes every pair of values up to
\* MaxHundredths, the other two take the values 0 and MaxHundredths.
MetricsPairs ==
    {[a |-> [f \in ComparedFields |-> IF f = ax THEN va ELSE ca[f]],
      b |-> [f \in ComparedFields |-> IF f = ax THEN vb ELSE cb[f]]] :
        ax \in ComparedFields, va \in 0..MaxHundredths, vb \in 0..MaxHundredths,
        ca \in [ComparedFields -> {0, MaxHundredths}],
        cb \in [ComparedFields -> {0, MaxHundredths}]}

NoComparison == [quality_winner |-> "none", speed_winner |-> "none", cost_winner |-> "none"]

CompareInit ==
    /\ RunInit
    /\ calc \in {[metrics |-> p, returned |-> FALSE, comparison |-> NoComparison] :
                    p \in MetricsPairs}

CompareModels ==
    /\ ~calc.returned
    /\ calc' = [calc EXCEPT !.returned = TRUE,
                            !.comparison = compare_models(calc.metrics.a, calc.metrics.b)]
    /\ UNCHANGED runVars

CompareNext == CompareModels

SpecCompare == CompareInit /\ [][CompareNext]_vars

\* |x - y| < threshold for two non-negative doubles, in exact arithmetic.
ExactlyWithinThreshold(x, y) ==
    LET sh == Max(Max(x.sh, y.sh), Threshold.sh)
        big == IF MagnitudeLess(x, y) THEN AtScale(y, sh) ELSE AtScale(x, sh)
        small == IF MagnitudeLess(x, y) THEN AtScale(x, sh) ELSE AtScale(y, sh)
    IN LessBits(SubBits(big, small, 0), AtScale(Threshold, sh))

\* The result of an axis with model_a and model_b exchanged.
SwapWinner(w) == IF w = "model_a" THEN "model_b" ELSE IF w = "model_b" THEN "model_a" ELSE w

\* The axes: the field each compares and whether the higher value wins.
AxisField == [quality_winner |-> "avg_score", speed_winner |-> "avg_latency_ms",
              cost_winner |-> "total_cost_usd"]
HigherWins == [quality_winner |-> TRUE, speed_winner |-> FALSE, cost_winner |-> FALSE]

-----------------------------------------------------------------------------
(* The read endpoints of a run that has no results yet: the run from its    *)
(* creation up to the first generation call, and a request to each of       *)
(* GET /evaluation/{id}, /results/{id}/summary, /results/{id}/detailed,     *)
(* /results/{id}/metrics-summary, /results/{id}/metrics-by-model,           *)
(* /evaluation/{id}/summary and /evaluation/{id}/metrics.                   *)

\* No request answered yet.
NoResponseYet == [endpoint |-> "none", status_code |-> 0, run_status |-> "none", results |-> 0]

\* The response of an endpoint, with the state of the run it was given for.
Response(endpoint, status_code) ==
    [endpoint |-> endpoint, status_code |-> status_code,
     run_status |-> evaluation.status, results |-> Len(model_results)]

\* if not evaluation: raise HTTPException(404, "Evaluation not found")
FoundOr404 == IF evaluation = NoEvaluation THEN 404 ELSE 200

\* results.py get_evaluation_summary: 404 without a row, 400 unless the run
\* is completed, otherwise the metrics of the stored results.
GetResultsSummary ==
    /\ calc' = Response("results/summary",
                        IF evaluation = NoEvaluation THEN 404
                        ELSE IF evaluation.status # "completed" THEN 400
                        ELSE 200)
    /\ calc' # calc
    /\ UNCHANGED runVars

\* results.py get_detailed_results: the loops over the stored results run
\* zero times when there are none.
GetDetailedResults ==
    /\ calc' = Response("results/detailed", FoundOr404)
    /\ calc' # calc
    /\ UNCHANGED runVars

\* results.py get_new_metrics_summary: null averages when there are no
\* EvaluationMetrics rows (the run creates none).
GetNewMetricsSummary ==
    /\ calc' = Response("results/metrics-summary", FoundOr404)
    /\ calc' # calc
    /\ UNCHANGED runVars

\* results.py get_new_metrics_by_model: an empty dict when there are no
\* EvaluationMetrics rows.
GetNewMetricsByModel ==
    /\ calc' = Response("results/metrics-by-model", FoundOr404)
    /\ calc' # calc
    /\ UNCHANGED runVars

\* evaluation.py get_evaluation_summary: 404 "Evaluation summary not found"
\* unless the run has stored its EvaluationSummary row.
GetEvaluationSummary ==
    /\ calc' = Response("evaluation/summary", IF summaries = 0 THEN 404 ELSE 200)
    /\ calc' # calc
    /\ UNCHANGED runVars

\* evaluation.py get_evaluation_metrics_endpoint: an empty metrics_by_model
\* when there are no QuestionMetrics rows; the evaluation row is not read.
GetEvaluationMetrics ==
    /\ calc' = Response("evaluation/metrics", 200)
    /\ calc' # calc
    /\ UNCHANGED runVars

EndpointsInit == RunInit /\ calc = NoResponseYet

EndpointsNext ==
    \/ AddQuestion
    \/ CreateEvaluation
    \/ StartRun
    \/ InitRun
    \/ InitRunFails
    \/ QueryContext
    \/ QueryContextFails
    \/ GetEvaluationStatus
    \/ GetResultsSummary
    \/ GetDetailedResults
    \/ GetNewMetricsSummary
    \/ GetNewMetricsByModel
    \/ GetEvaluationSummary
    \/ GetEvaluationMetrics

SpecEndpoints == EndpointsInit /\ [][EndpointsNext]_vars

\* C20 (as claimed): a request about an existing run that is pending, or
\* running with no stored result, is answered with a success; no endpoint
\* answers it with an error.
C20_NoResultsNoError ==
    (calc.run_status \in {"pending", "running"} /\ calc.results = 0) =>
        calc.status_code = 200

-----------------------------------------------------------------------------
(* SyntheticDataGenerator.generate_questions_from_chunks and the background *)
(* task that stores its result: one generation call per chunk, a failing    *)
(* chunk skipped, the number of returned questions stored as the dataset's  *)
(* total_questions.                                                         *)

MaxChunks == 3
MaxPerChunk == 2

\* What the generation call of one chunk comes to: response.error set, a
\* response json.loads rejects, a JSON value whose n-th element is not an
\* object (q_data.get raises), or an array of n question objects.
ChunkOutcomes ==
    {[kind |-> "error", n |-> 0], [kind |-> "unparseable", n |-> 0]}
        \cup [kind : {"notobject"}, n : 1..MaxPerChunk]
        \cup [kind : {"questions"}, n : 0..MaxPerChunk]

\* The question lists this bound covers: a question is <<chunk, index>>.
QuestionsOf(chunk, n) == [i \in 1..n |-> <<chunk, i>>]

\* generate_questions_from_chunk: raises on response.error, on a decode
\* error and on an element without .get; otherwise one SyntheticQuestion per
\* element of the parsed array.
MutChunkKeepsPartialList(chunk, outcome) ==
    IF outcome.kind \in {"error", "unparseable"}
    THEN [raised |-> TRUE, questions |-> <<>>]
    ELSE IF outcome.kind = "notobject"
    THEN [raised |-> FALSE, questions |-> QuestionsOf(chunk, outcome.n - 1)]
    ELSE [raised |-> FALSE, questions |-> QuestionsOf(chunk, outcome.n)]

generate_questions_from_chunk(chunk, outcome) ==
    IF outcome.kind = "questions"
    THEN [raised |-> FALSE, questions |-> QuestionsOf(chunk, outcome.n)]
    ELSE [raised |-> TRUE, questions |-> <<>>]

\* The dataset row and the loop of generate_questions_from_chunks before the
\* first chunk: create_test_dataset leaves total_questions at its default 0.
SyntheticIdle(outcomes) ==
    [outcomes |-> outcomes, idx |-> 0, calls |-> <<>>, all_questions |-> <<>>,
     returned |-> FALSE, saved |-> FALSE, stored |-> 0, total_questions |-> 0]

SyntheticInit ==
    /\ RunInit
    /\ \E n \in 0..MaxChunks : \E outcomes \in [1..n -> ChunkOutcomes] :
           calc = SyntheticIdle(outcomes)

\* One iteration of `for idx, chunk in enumerate(chunks)`: the call, then
\* all_questions.extend(questions), or the except branch that continues.
GenerateFromNextChunk ==
    /\ ~calc.returned
    /\ calc.idx < Len(calc.outcomes)
    /\ LET chunk == calc.idx + 1
           result == generate_questions_from_chunk(chunk, calc.outcomes[chunk])
       IN  calc' = [calc EXCEPT !.idx = chunk,
                                !.calls = Append(@, chunk),
                                !.all_questions =
                                    IF result.raised THEN @ ELSE @ \o result.questions]
    /\ UNCHANGED runVars

\* return all_questions
ReturnAllQuestions ==
    /\ ~calc.returned
    /\ calc.idx = Len(calc.outcomes)
    /\ calc' = [calc EXCEPT !.returned = TRUE]
    /\ UNCHANGED runVars

\* generate_synthetic_questions_background after the await: one
\* create_test_question per returned question, then
\* dataset.total_questions = len(questions).  With no chunk the task has
\* returned before the generator was built.
SaveSyntheticQuestions ==
    /\ calc.returned
    /\ ~calc.saved
    /\ Len(calc.outcomes) > 0
    /\ calc' = [calc EXCEPT !.saved = TRUE,
                            !.stored = Len(calc.all_questions),
                            !.total_questions = Len(calc.all_questions)]
    /\ UNCHANGED runVars

SyntheticNext ==
    \/ GenerateFromNextChunk
    \/ ReturnAllQuestions
    \/ SaveSyntheticQuestions

SpecSynthetic == SyntheticInit /\ [][SyntheticNext]_vars

\* The chunks whose call came to an array of question objects.
SucceededChunks == {i \in 1..Len(calc.outcomes) : calc.outcomes[i].kind = "questions"}

\* C21: generate_questions_from_chunks calls the generator once per chunk in
\* chunk order, whatever the earlier chunks came to; the list it returns
\* holds exactly the questions of the chunks that succeeded, in order, and
\* the stored total_questions is the length of that list.
C21_FailedChunksSkipped ==
    /\ calc.calls = [i \in 1..calc.idx |-> i]
    /\ calc.returned =>
           /\ calc.idx = Len(calc.outcomes)
           /\ {calc.all_questions[k] : k \in 1..Len(calc.all_questions)} =
                  {q \in SucceededChunks \X (1..MaxPerChunk) : q[2] <= calc.outcomes[q[1]].n}
           /\ \A k \in 1..Len(calc.all_questions) - 1 :
                  LET a == calc.all_questions[k]
                      b == calc.all_questions[k + 1]
                  IN  a[1] < b[1] \/ (a[1] = b[1] /\ a[2] < b[2])
    /\ calc.saved =>
           /\ calc.total_questions = Len(calc.all_questions)
           /\ calc.stored = calc.total_questions

C21_Witness ==
    /\ calc.saved
    /\ Len(calc.outcomes) = 3
    /\ calc.outcomes[1].kind = "error"
    /\ calc.outcomes[2].kind = "notobject"
    /\ calc.outcomes[3] = [kind |-> "questions", n |-> 2]
    /\ calc.total_questions = 2

-----------------------------------------------------------------------------
(* TextChunker.chunk_text.  A text is a sequence of characters; a piece of  *)
(* the normalized text is kept as its span <<first, last>> (1-based,        *)
(* inclusive), so that the text two chunks really share is known.  The      *)
(* splitter is RecursiveCharacterTextSplitter as the constructor configures *)
(* it: separators "\n\n", "\n", ". ", " ", "", keep_separator=True,         *)
(* length_function=count_tokens.                                            *)

MaxDocLen == 5
MaxChunkSize == 3
WideTokens == 4

\* Characters: a letter, a space, a full stop, and one character that the
\* encoding spells with several tokens.
Chars == {"a", " ", ".", "W"}

\* count_tokens: len(self.encoding.encode(text)).  The encoding is taken to
\* give one token to a letter together with the space before it, one token
\* to any other space and to a full stop, and WideTokens tokens to "W".
RECURSIVE CountTokensFrom(_, _)
CountTokensFrom(text, i) ==
    IF i > Len(text) THEN 0
    ELSE (IF text[i] = " "
          THEN (IF i < Len(text) /\ text[i + 1] = "a" THEN 0 ELSE 1)
          ELSE IF text[i] = "W" THEN WideTokens ELSE 1)
         + CountTokensFrom(text, i + 1)

count_tokens(text) == CountTokensFrom(text, 1)

\* _clean_text: re.sub(r'\s+', ' ', text) and strip().  (The second re.sub
\* finds no newline left to replace.)
RECURSIVE CollapseSpaces(_)
CollapseSpaces(text) ==
    IF Len(text) < 2 THEN text
    ELSE IF text[1] = " " /\ text[2] = " " THEN CollapseSpaces(Tail(text))
    ELSE <<text[1]>> \o CollapseSpaces(Tail(text))

RECURSIVE StripText(_)
StripText(text) ==
    IF text = <<>> THEN text
    ELSE IF text[1] = " " THEN StripText(Tail(text))
    ELSE IF text[Len(text)] = " " THEN StripText(SubSeq(text, 1, Len(text) - 1))
    ELSE text

clean_text(text) == StripText(CollapseSpaces(text))

\* The characters of a span, and the span without its outer spaces (an empty
\* span has last < first).
Content(text, span) == SubSeq(text, span[1], span[2])

RECURSIVE StripSpan(_, _)
StripSpan(text, span) ==
    IF span[2] < span[1] THEN span
    ELSE IF text[span[1]] = " " THEN StripSpan(text, <<span[1] + 1, span[2]>>)
    ELSE IF text[span[2]] = " " THEN StripSpan(text, <<span[1], span[2] - 1>>)
    ELSE span

\* The separators of the constructor, in order.
Separators == << <<"\n", "\n">>, <<"\n">>, <<".", " ">>, <<" ">>, <<>> >>

\* Where the separator occurs in the span.
Occurrences(text, span, separator) ==
    {p \in span[1]..(span[2] - Len(separator) + 1) :
        SubSeq(text, p, p + Len(separator) - 1) = separator}

\* _split_text_with_regex with keep_separator=True: re.split on the
\* separator, each separator joined to the piece after it, empty pieces
\* dropped; list(text) for the separator "".
split_text_with_regex(text, span, separator) ==
    LET starts == IF separator = <<>> THEN span[1]..span[2]
                  ELSE {span[1]} \cup Occurrences(text, span, separator)
        Nth(k) == CHOOSE p \in starts : Cardinality({q \in starts : q < p}) = k - 1
        n == Cardinality(starts)
    IN  [k \in 1..n |-> <<Nth(k), IF k = n THEN span[2] ELSE Nth(k + 1) - 1>>]

\* _join_docs: the pieces joined (they are consecutive), stripped; None,
\* here the empty sequence, for a text that is empty after the strip.
join_docs(text, current_doc) ==
    LET span == StripSpan(text, <<current_doc[1][1], current_doc[Len(current_doc)][2]>>)
    IN  IF span[2] < span[1] THEN <<>> ELSE <<span>>

MutDropFrontKeepsAll(text, config, current_doc, total, len) ==
    [current_doc |-> current_doc, total |-> total]

\* The while loop of _merge_splits: drop pieces from the front while more
\* than chunk_overlap tokens are kept, or the next piece still does not fit.
RECURSIVE DropFront(_, _, _, _, _)
DropFront(text, config, current_doc, total, len) ==
    IF total > config.chunk_overlap \/ (total + len > config.chunk_size /\ total > 0)
    THEN DropFront(text, config, Tail(current_doc),
                   total - count_tokens(Content(text, current_doc[1])), len)
    ELSE [current_doc |-> current_doc, total |-> total]

\* _merge_splits with the separator "" (its length is 0 tokens): pieces are
\* collected while their lengths add up to at most chunk_size.
RECURSIVE MergeFrom(_, _, _, _, _, _, _)
MergeFrom(text, config, splits, k, docs, current_doc, total) ==
    IF k > Len(splits)
    THEN (IF current_doc = <<>> THEN docs ELSE docs \o join_docs(text, current_doc))
    ELSE LET len == count_tokens(Content(text, splits[k]))
             full == total + len > config.chunk_size /\ current_doc # <<>>
             kept == IF full THEN DropFront(text, config, current_doc, total, len)
                     ELSE [current_doc |-> current_doc, total |-> total]
         IN  MergeFrom(text, config, splits, k + 1,
                       IF full THEN docs \o join_docs(text, current_doc) ELSE docs,
                       Append(kept.current_doc, splits[k]),
                       kept.total + len)

merge_splits(text, config, splits) == MergeFrom(text, config, splits, 1, <<>>, <<>>, 0)

\* The separator _split_text picks: the first one that is "" or occurs in
\* the text.
PickSeparator(text, span, separators) ==
    CHOOSE i \in 1..Len(separators) :
        /\ separators[i] = <<>> \/ Occurrences(text, span, separators[i]) # {}
        /\ \A j \in 1..(i - 1) :
               separators[j] # <<>> /\ Occurrences(text, span, separators[j]) = {}

\* _split_text: pieces shorter than chunk_size are merged; a longer piece is
\* split again with the finer separators, or kept whole when none is left.
RECURSIVE SplitLoop(_, _, _, _, _, _, _)
RECURSIVE split_text_recursive(_, _, _, _)
SplitLoop(text, config, splits, k, good_splits, final_chunks, new_separators) ==
    IF k > Len(splits)
    THEN (IF good_splits = <<>> THEN final_chunks
          ELSE final_chunks \o merge_splits(text, config, good_splits))
    ELSE IF count_tokens(Content(text, splits[k])) < config.chunk_size
    THEN SplitLoop(text, config, splits, k + 1, Append(good_splits, splits[k]),
                   final_chunks, new_separators)
    ELSE LET merged == IF good_splits = <<>> THEN final_chunks
                       ELSE final_chunks \o merge_splits(text, config, good_splits)
             other == IF new_separators = <<>> THEN <<splits[k]>>
                      ELSE split_text_recursive(text, config, splits[k], new_separators)
         IN  SplitLoop(text, config, splits, k + 1, <<>>, merged \o other, new_separators)

split_text_recursive(text, config, span, separators) ==
    LET i == PickSeparator(text, span, separators)
        separator == separators[i]
        new_separators == IF separator = <<>> THEN <<>>
                          ELSE SubSeq(separators, i + 1, Len(separators))
    IN  SplitLoop(text, config, split_text_with_regex(text, span, separator),
                  1, <<>>, <<>>, new_separators)

\* langchain_splitter.split_text(text)
split_text(text, config) == split_text_recursive(text, config, <<1, Len(text)>>, Separators)

\* str.find(sub, start) in 0-based positions, -1 when there is none.
Find(text, sub, start) ==
    LET found == {p \in start..(Len(text) - Len(sub)) :
                     SubSeq(text, p + 1, p + Len(sub)) = sub}
    IN  IF found = {} THEN -1 ELSE CHOOSE p \in found : \A q \in found : p <= q

\* The loop of chunk_text over the splitter's chunks: strip, skip an empty
\* one, locate it from the end of the chunk before.  `span` is the place the
\* splitter took the chunk from.
RECURSIVE ChunkLoop(_, _, _, _, _)
ChunkLoop(text, text_chunks, k, current_char_pos, chunks) ==
    IF k > Len(text_chunks) THEN chunks
    ELSE LET span == StripSpan(text, text_chunks[k])
             chunk_text == Content(text, span)
             found == Find(text, chunk_text, current_char_pos)
             start_char == IF found = -1 THEN current_char_pos ELSE found
             end_char == start_char + Len(chunk_text)
         IN  IF chunk_text = <<>>
             THEN ChunkLoop(text, text_chunks, k + 1, current_char_pos, chunks)
             ELSE ChunkLoop(text, text_chunks, k + 1, end_char,
                            Append(chunks, [content |-> chunk_text,
                                            index |-> k - 1,
                                            start_char |-> start_char,
                                            end_char |-> end_char,
                                            token_count |-> count_tokens(chunk_text),
                                            span |-> span]))

\* chunk_text: an empty list for an empty or blank text.
chunk_text(text, config) ==
    IF StripText(text) = <<>> THEN <<>>
    ELSE LET normalized == clean_text(text)
         IN  ChunkLoop(normalized, split_text(normalized, config), 1, 0, <<>>)

RECURSIVE TextsUpTo(_)
TextsUpTo(n) ==
    IF n = 0 THEN {<<>>}
    ELSE LET shorter == TextsUpTo(n - 1)
         IN  shorter \cup {Append(t, c) : t \in shorter, c \in Chars}

\* The chunker before the call: a text and a configuration with
\* chunk_overlap < chunk_size.
ChunkerInit ==
    /\ RunInit
    /\ \E text \in TextsUpTo(MaxDocLen) :
       \E chunk_size \in 1..MaxChunkSize :
       \E chunk_overlap \in 0..(chunk_size - 1) :
           calc = [text |-> text,
                   config |-> [chunk_size |-> chunk_size, chunk_overlap |-> chunk_overlap],
                   returned |-> FALSE, normalized |-> <<>>, chunks |-> <<>>]

ChunkText ==
    /\ ~calc.returned
    /\ calc' = [calc EXCEPT !.returned = TRUE,
                            !.normalized = clean_text(calc.text),
                            !.chunks = chunk_text(calc.text, calc.config)]
    /\ UNCHANGED runVars

ChunkerNext == ChunkText

SpecChunker == ChunkerInit /\ [][ChunkerNext]_vars

\* The tokens of the text two spans have in common.
SharedTokens(text, a, b) ==
    LET first == Max(a[1], b[1])
        last == Min(a[2], b[2])
    IN  IF last < first THEN 0 ELSE count_tokens(SubSeq(text, first, last))

-----------------------------------------------------------------------------
(* BaseLLMProvider.generate of the OpenAI, Anthropic, Together and Mistral  *)
(* providers: the body wrapped in try/except Exception, the method wrapped  *)
(* in tenacity's @retry(stop=stop_after_attempt(3), wait=wait_exponential). *)

StopAfterAttempt == 3

RetryingProviders == {"openai", "anthropic", "together", "mistral"}

\* What one request to the provider's API comes to.
RequestOutcomes == {"completion", "timeout", "rate_limit", "bad_request"}

TransientErrors == {"timeout", "rate_limit"}

\* The body of generate for one request: the completion as an LLMResponse,
\* or, from `except Exception as e`, an LLMResponse with error=str(e).
\* Neither branch raises.
generate_body(outcome) ==
    IF outcome = "completion"
    THEN [raised |-> FALSE, error |-> "none"]
    ELSE [raised |-> FALSE, error |-> outcome]

\* tenacity: call again when the call raised and fewer than
\* stop_after_attempt attempts were made.
RetryCalls(result, attempt_number) ==
    result.raised /\ attempt_number < StopAfterAttempt

NoLLMResponse == [raised |-> FALSE, error |-> "pending"]

\* A call of generate, with what each request would come to.
GenerateInit ==
    /\ RunInit
    /\ \E provider \in RetryingProviders :
       \E outcomes \in [1..StopAfterAttempt -> RequestOutcomes] :
           calc = [provider |-> provider, outcomes |-> outcomes,
                   attempt_number |-> 0, returned |-> FALSE, response |-> NoLLMResponse]

\* One attempt of the decorated method.
GenerateAttempt ==
    /\ ~calc.returned
    /\ calc.attempt_number < StopAfterAttempt
    /\ LET attempt_number == calc.attempt_number + 1
           result == generate_body(calc.outcomes[attempt_number])
       IN  calc' = [calc EXCEPT !.attempt_number = attempt_number,
                                !.returned = ~RetryCalls(result, attempt_number),
                                !.response = result]
    /\ UNCHANGED runVars

GenerateNext == GenerateAttempt

SpecGenerate == GenerateInit /\ [][GenerateNext]_vars

\* C23 (as claimed): generate reports a failure to its caller only after
\* StopAfterAttempt requests, and a call whose first request throws a
\* transient error and whose second request completes returns a response
\* without error.
C23_TransientErrorRetried ==
    calc.returned =>
        /\ calc.response.error # "none" => calc.attempt_number = StopAfterAttempt
        /\ (calc.outcomes[1] \in TransientErrors /\ calc.outcomes[2] = "completion")
               => calc.response.error = "none"

-----------------------------------------------------------------------------
(* RAGIndex.add_chunks: _generate_embeddings_with_retry, decorated with     *)
(* @retry(stop=stop_after_attempt(3)), awaits the provider's embed_texts    *)
(* under asyncio.wait_for(timeout=60.0); OpenAIEmbeddingProvider.embed_texts *)
(* is itself decorated with @retry(stop=stop_after_attempt(3)).             *)

EmbeddingStopAfterAttempt == 3
ProviderStopAfterAttempt == 3

\* The providers EmbeddingProviderFactory registers.
EmbeddingProviders == {"openai", "bge"}

\* The requests one call of embed_texts may make: the OpenAI provider
\* retries inside, the BGE provider does not.
ProviderAttempts(provider) ==
    IF provider = "openai" THEN ProviderStopAfterAttempt ELSE 1

\* What one embedding request comes to: the vectors, an error, or no answer
\* before wait_for's timeout cancels the call.
EmbeddingOutcomes == {"embeddings", "error", "timeout"}

AddChunksIdle(provider, chunks) ==
    [provider |-> provider, chunks |-> chunks, status |-> "idle",
     attempt_number |-> 0, provider_attempt |-> 0, requests |-> 0,
     timeouts |-> 0, ids |-> 0, collection |-> 0]

AddChunksInit ==
    /\ RunInit
    /\ \E provider \in EmbeddingProviders : \E chunks \in 0..MaxChunks :
           calc = AddChunksIdle(provider, chunks)

\* add_chunks up to the await: `if not chunks: return []`.
AddChunksCalled ==
    /\ calc.status = "idle"
    /\ calc' = IF calc.chunks = 0
               THEN [calc EXCEPT !.status = "returned"]
               ELSE [calc EXCEPT !.status = "embedding",
                                 !.attempt_number = 1, !.provider_attempt = 1]
    /\ UNCHANGED runVars

\* The attempt of _generate_embeddings_with_retry has raised: tenacity
\* starts the next attempt, or raises after the last one.
AfterAttemptRaised(c) ==
    IF c.attempt_number < EmbeddingStopAfterAttempt
    THEN [c EXCEPT !.attempt_number = @ + 1, !.provider_attempt = 1]
    ELSE [c EXCEPT !.status = "raised"]

\* One request of the provider inside embed_texts.
EmbeddingRequest ==
    /\ calc.status = "embedding"
    /\ \E outcome \in EmbeddingOutcomes :
        LET c == [calc EXCEPT !.requests = @ + 1,
                              !.timeouts = IF outcome = "timeout" THEN @ + 1 ELSE @]
        IN  calc' =
                IF outcome = "embeddings" THEN [c EXCEPT !.status = "embedded"]
                ELSE IF outcome = "error" /\ c.provider_attempt < ProviderAttempts(c.provider)
                THEN [c EXCEPT !.provider_attempt = @ + 1]
                ELSE AfterAttemptRaised(c)
    /\ UNCHANGED runVars

\* add_chunks after the await: collection.add(...) and `return ids`.
CollectionAdd ==
    /\ calc.status = "embedded"
    /\ calc' = [calc EXCEPT !.status = "returned",
                            !.collection = @ + calc.chunks,
                            !.ids = calc.chunks]
    /\ UNCHANGED runVars

AddChunksNext ==
    \/ AddChunksCalled
    \/ EmbeddingRequest
    \/ CollectionAdd

SpecAddChunks == AddChunksInit /\ [][AddChunksNext]_vars

\* C24 (as claimed): one call of add_chunks makes at most three embedding
\* requests, each attempt ending at its timeout; when every attempt fails
\* the call raises, returns no ids and adds nothing to the collection; with
\* no chunk it returns the empty list without a request.
C24_AtMostThreeEmbeddingAttempts ==
    /\ calc.requests <= EmbeddingStopAfterAttempt
    /\ calc.timeouts <= EmbeddingStopAfterAttempt
    /\ calc.status = "raised" => calc.ids = 0 /\ calc.collection = 0
    /\ calc.chunks = 0 => calc.requests = 0 /\ calc.ids = 0 /\ calc.status # "raised"

-----------------------------------------------------------------------------
\* C25 (as claimed): the row of a run never has more completed questions
\* than total questions, and its progress never exceeds 100, also when a
\* question is added to the dataset after the run was created.
C25_CompletedWithinTotal ==
    evaluation # NoEvaluation =>
        /\ evaluation.completed_questions <= evaluation.total_questions
        /\ evaluation.progress <= 100

-----------------------------------------------------------------------------
(* The question rows of one test dataset and its total_questions column     *)
(* under upload-jsonl, upload-csv, add-question and the synthetic           *)
(* generation task.                                                         *)

MaxDatasetRows == 4
MaxUploadRows == 2

\* create_test_dataset: no question yet, total_questions at its default 0.
\* `synthetic_pending` holds while the background task of a synthetic
\* dataset has not stored its questions.
NewTestDataset(source) ==
    [source |-> source, jsonl |-> 0, csv |-> 0, added |-> 0, synthetic |-> 0,
     synthetic_pending |-> (source = "synthetic"), total_questions |-> 0]

\* get_dataset_questions: the rows stored for the dataset.
StoredQuestions(dataset) ==
    dataset.jsonl + dataset.csv + dataset.added + dataset.synthetic

DatasetInit ==
    /\ RunInit
    /\ \E source \in {"manual", "synthetic"} : calc = NewTestDataset(source)

\* upload_test_questions_jsonl: a row per line that parses, then
\* dataset.total_questions = questions_added.
UploadJsonl ==
    /\ \E questions_added \in 0..MaxUploadRows :
        /\ StoredQuestions(calc) + questions_added <= MaxDatasetRows
        /\ calc' = [calc EXCEPT !.jsonl = @ + questions_added,
                                !.total_questions = questions_added]
    /\ calc' # calc
    /\ UNCHANGED runVars

\* upload_test_questions_csv: a row per CSV row, then
\* dataset.total_questions = questions_added.
UploadCsv ==
    /\ \E questions_added \in 0..MaxUploadRows :
        /\ StoredQuestions(calc) + questions_added <= MaxDatasetRows
        /\ calc' = [calc EXCEPT !.csv = @ + questions_added,
                                !.total_questions = questions_added]
    /\ calc' # calc
    /\ UNCHANGED runVars

\* add_question_to_dataset: create_test_question and nothing else.
AddQuestionToDataset ==
    /\ StoredQuestions(calc) < MaxDatasetRows
    /\ calc' = [calc EXCEPT !.added = @ + 1]
    /\ UNCHANGED runVars

\* generate_synthetic_questions_background: a row per generated question,
\* then dataset.total_questions = len(questions).
StoreSyntheticQuestions ==
    /\ calc.synthetic_pending
    /\ \E generated \in 0..MaxUploadRows :
        /\ StoredQuestions(calc) + generated <= MaxDatasetRows
        /\ calc' = [calc EXCEPT !.synthetic = @ + generated,
                                !.synthetic_pending = FALSE,
                                !.total_questions = generated]
    /\ UNCHANGED runVars

DatasetNext ==
    \/ UploadJsonl
    \/ UploadCsv
    \/ AddQuestionToDataset
    \/ StoreSyntheticQuestions

SpecDataset == DatasetInit /\ [][DatasetNext]_vars

\* C26 (as claimed): whatever operations were applied to the dataset, its
\* total_questions is the number of questions stored for it.
C26_TotalQuestionsIsRowCount ==
    calc.total_questions = StoredQuestions(calc)

-----------------------------------------------------------------------------
(* One document of a workspace: POST /{document_id}/process, PATCH of the   *)
(* workspace settings, and the process_document_background tasks they       *)
(* schedule.  A task runs without interruption up to `await add_chunks`     *)
(* and again from there to its end.                                         *)

MaxProcessings == 3
MaxSettings == 2

\* The workspace's collection name: vector_collection_id when set, else
\* f"workspace_{workspace_id}".
CollectionName(vector_collection_id) ==
    IF vector_collection_id = "None" THEN "workspace_id" ELSE vector_collection_id

\* The number of chunks chunk_text cuts the document into depends on the
\* chunk settings: setting s gives s chunks.
ChunksUnder(setting) == setting

\* An uploaded document, not processed yet.  `tasks` are the background
\* tasks accepted so far, `chunk_rows` the Chunk rows as
\* [chunk_index, vector_id], `collection` the vector ids in the store.
DocumentsInit ==
    /\ RunInit
    /\ \E setting \in 1..MaxSettings :
        calc = [processing_status |-> "pending", setting |-> setting,
                vector_collection_id |-> "None", tasks |-> <<>>,
                chunk_rows |-> {}, collection |-> {}, collection_names |-> {},
                next_vector |-> 1, rejected |-> 0]

Unfinished(tasks) == {t \in 1..Len(tasks) : tasks[t].pc # "done"}

\* process_document: 400 while processing_status is "processing",
\* otherwise the background task is added.
ProcessDocument ==
    /\ Len(calc.tasks) < MaxProcessings
    /\ calc.processing_status # "processing"
    /\ calc' = [calc EXCEPT !.tasks = Append(@, [pc |-> "scheduled", chunks |-> 0])]
    /\ UNCHANGED runVars

ProcessDocumentRejected ==
    /\ calc.processing_status = "processing"
    /\ calc.rejected < MaxProcessings
    /\ calc' = [calc EXCEPT !.rejected = @ + 1]
    /\ UNCHANGED runVars

\* update_workspace_endpoint with changed chunk or embedding settings: the
\* Chunk rows of a completed document are deleted, the document is marked
\* pending and a background task is added.
UpdateWorkspace ==
    /\ Len(calc.tasks) < MaxProcessings
    /\ \E setting \in (1..MaxSettings) \ {calc.setting} :
        calc' = IF calc.processing_status = "completed"
                THEN [calc EXCEPT !.setting = setting,
                                  !.chunk_rows = {},
                                  !.processing_status = "pending",
                                  !.tasks = Append(@, [pc |-> "scheduled", chunks |-> 0])]
                ELSE [calc EXCEPT !.setting = setting]
    /\ UNCHANGED runVars

\* process_document_background up to the await: status "processing", the
\* text extracted and chunked with the workspace's settings, the index
\* opened under the collection name.
TaskStarts ==
    /\ \E t \in 1..Len(calc.tasks) :
        /\ calc.tasks[t].pc = "scheduled"
        /\ calc' = [calc EXCEPT
               !.processing_status = "processing",
               !.tasks[t] = [pc |-> "embedding", chunks |-> ChunksUnder(calc.setting)],
               !.collection_names = @ \cup {CollectionName(calc.vector_collection_id)}]
    /\ UNCHANGED runVars

\* add_chunks returns: the vectors are in the collection; a Chunk row per
\* chunk, vector_collection_id set, status "completed".
TaskCompletes ==
    /\ \E t \in 1..Len(calc.tasks) :
        /\ calc.tasks[t].pc = "embedding"
        /\ LET n == calc.tasks[t].chunks
               vector_ids == [i \in 1..n |-> calc.next_vector + i - 1]
           IN  calc' = [calc EXCEPT
                   !.tasks[t].pc = "done",
                   !.collection = @ \cup {vector_ids[i] : i \in 1..n},
                   !.chunk_rows = @ \cup {[chunk_index |-> i - 1, vector_id |-> vector_ids[i]] : i \in 1..n},
                   !.next_vector = @ + n,
                   !.vector_collection_id = CollectionName(@),
                   !.processing_status = "completed"]
    /\ UNCHANGED runVars

\* add_chunks raises: status "failed", nothing stored.
TaskFails ==
    /\ \E t \in 1..Len(calc.tasks) :
        /\ calc.tasks[t].pc = "embedding"
        /\ calc' = [calc EXCEPT !.tasks[t].pc = "done",
                                !.processing_status = "failed"]
    /\ UNCHANGED runVars

DocumentsNext ==
    \/ ProcessDocument
    \/ ProcessDocumentRejected
    \/ UpdateWorkspace
    \/ TaskStarts
    \/ TaskCompletes
    \/ TaskFails

SpecDocuments == DocumentsInit /\ [][DocumentsNext]_vars

\* C27 (as claimed): the document never has more than one background task
\* that was accepted and has not finished.
C27_OneProcessingTask ==
    Cardinality(Unfinished(calc.tasks)) <= 1

\* C28 (as claimed): when no task is pending, the collection holds exactly
\* the vectors the stored Chunk rows refer to, no chunk of the document has
\* two rows, and every task indexed under the same collection name.
C28_CollectionMatchesChunkRows ==
    Unfinished(calc.tasks) = {} =>
        /\ calc.collection = {row.vector_id : row \in calc.chunk_rows}
        /\ \A a, b \in calc.chunk_rows : a.chunk_index = b.chunk_index => a = b
        /\ Cardinality(calc.collection_names) <= 1

-----------------------------------------------------------------------------
(* get_evaluation_summary of a two-model run: calculate_model_metrics once  *)
(* per model over the same list of judge results, the first model as        *)
(* model_a and the second as model_b.                                       *)

NoRates == [win_rate |-> 0, tie_rate |-> 0, loss_rate |-> 0]

PairRatesInit ==
    /\ RunInit
    /\ \E verdicts \in WinnerLists :
        calc = [verdicts |-> verdicts, returned |-> FALSE,
                metrics_a |-> NoRates, metrics_b |-> NoRates]

\* The loop over results_by_model.
SummaryMetrics ==
    /\ ~calc.returned
    /\ calc' = [calc EXCEPT !.returned = TRUE,
                            !.metrics_a = JudgeRates(calc.verdicts, "model_a"),
                            !.metrics_b = JudgeRates(calc.verdicts, "model_b")]
    /\ UNCHANGED runVars

PairRatesNext == SummaryMetrics

SpecPairRates == PairRatesInit /\ [][PairRatesNext]_vars

\* C29 (as claimed): whatever verdicts are stored, model A's win rate is
\* model B's loss rate, model B's win rate is model A's loss rate, and the
\* two models have the same tie rate.
C29_RatesMirrorEachOther ==
    calc.returned =>
        /\ calc.metrics_a.win_rate = calc.metrics_b.loss_rate
        /\ calc.metrics_b.win_rate = calc.metrics_a.loss_rate
        /\ calc.metrics_a.tie_rate = calc.metrics_b.tie_rate

-----------------------------------------------------------------------------
\* text[start_char:end_char] of Python, on 0-based positions.
Slice(text, start_char, end_char) ==
    SubSeq(text, start_char + 1, Min(end_char, Len(text)))

\* C30 (as claimed): every chunk chunk_text returns is where its span says,
\* normalized_text[start_char:end_char] = content with
\* start_char <= end_char, and the chunks carry the indexes 0, 1, 2, ... in
\* the order they are returned.
C30_SpansExactIndexesDense ==
    calc.returned =>
        \A k \in 1..Len(calc.chunks) :
            /\ calc.chunks[k].start_char <= calc.chunks[k].end_char
            /\ Slice(calc.normalized, calc.chunks[k].start_char, calc.chunks[k].end_char)
                   = calc.chunks[k].content
            /\ calc.chunks[k].index = k - 1

====
